---------------------------- MODULE Spec2Model ----------------------------
(***************************************************************************)
(* Model of the risk-quantification core of jtflack-grc/impact:            *)
(*   - the execution scheduler (useSimulation / useDebounce),              *)
(*   - the Monte Carlo worker's message handler,                           *)
(*   - the simulation driver (runSync and the worker) with percentile and  *)
(*     the sensitivity sweep,                                              *)
(*   - the effective-input resolver and the control multipliers,           *)
(*   - the insurance transform netLoss.                                    *)
(* Monetary amounts and variable values are integers (thousandths for the  *)
(* input variables); a multiplier is an integer number of thousandths, so  *)
(* an effective value is the raw value times 1000 per control definition.  *)
(***************************************************************************)
EXTENDS Integers, Sequences, FiniteSets, TLC

\* ------------------------------------------------------------------ bounds
\* Number of setInput and setControl calls explored.
MaxChanges == 2
\* Number of runSimulation requests explored (mount run, user runs, archetype runs).
MaxRuns == 3
\* Largest gross loss, deductible and coverage limit given to netLoss.
MaxLoss == 6
\* Largest gross loss one iteration returns, and largest element of an array
\* given to percentile.
MaxGross == 2
\* Largest number of batches of iterations the driver's loop is split into.
MaxBatches == 3

\* Largest amortisation term (years) given to debtService; terms start at -1.
MaxTerm == 3

\* Largest number of scenarios in SECURITY_SCENARIOS.
MaxScenarios == 3
\* Largest number of steps of a scenario.
MaxSteps == 2

\* Largest min, mode and max given to sampleTriangular.
MaxSample == 3
\* Number of values of Math.random() explored: u = 0/UGrid .. (UGrid-1)/UGrid.
UGrid == 4

\* Largest number of events samplePoisson returns.
MaxEvents == 2

\* ------------------------------------------------------- program constants
DEFAULT_DEDUCTIBLE == 250000
DEFAULT_COVERAGE == 10000000
COST_LEGAL == 200000
COST_NOTIFICATION == 150000
COST_CHURN == 400000

Min(a, b) == IF a <= b THEN a ELSE b
Max(a, b) == IF a >= b THEN a ELSE b

\* ------------------------------------------------------------- input data
\* The values a caller may hand to setInput for the variable TEF: a full
\* triangular descriptor, and one with min and max left undefined.
InputChoices ==
  { [min |-> 500, mode |-> 1000, max |-> 2000],
    [x \in {"mode"} |-> 2000] }
\* Maturities a caller may hand to setControl.
MaturityChoices == {0, 4}
\* scenario.controls: one control that acts on TEF.
controlDefs == << [id |-> "patching", variableIds |-> {"TEF"}] >>
\* The arguments the caller passes to runSimulation (the effects pass 2000, false):
\* at the synchronous threshold, between the thresholds, and a refine preset.
RunChoices == { <<3000, TRUE>>, <<4000, FALSE>>, <<4000, TRUE>>, <<10000, FALSE>> }
\* The archetypes setArchetype may select; NoArchetype stands for null.
Archetypes ==
  { [id |-> "midsize", deductible |-> 100000, coverageLimit |-> 5000000] }
NoArchetype == [id |-> "none"]
\* The p given to percentile, in hundredths: the driver's 0.5, 0.9 and 0.95,
\* the two ends, and a quartile.
PChoices == {0, 25, 50, 90, 95, 100}
\* The runs the driver is tried on: (deductible, coverageLimit) of the policy,
\* iteration counts of the synchronous path on both sides of its sample cap,
\* and (iterationCount, runSensitivity) of the requests posted to the worker,
\* on both sides of its sample cap and of its sweep threshold.
Policies == { <<1, 1>>, <<0, 1>>, <<2, 0>> }
SyncCounts == {1, 3, 1001}
WorkerRuns == { <<999, TRUE>>, <<4000, FALSE>>, <<5001, TRUE>> }

\* The resolver is tried on two controls that share TEF; between them they
\* reach a probability, a time, a cost and an unclassified variable, and leave
\* P_Secondary alone.
ResolverDefs ==
  << [id |-> "patching", variableIds |-> {"TEF", "Cost_IR"}],
     [id |-> "monitoring", variableIds |-> {"TEF", "T_DetectDays", "Exposure"}] >>
ResolverVariables == {"TEF", "T_DetectDays", "Cost_IR", "Exposure", "P_Secondary"}
ResolverMaturities == {0, 2, 5}

SENSITIVITY_VARS == <<"P_IFSReachable", "P_WriteAccess", "T_DetectDays", "P_Secondary", "TEF">>

PROB_VARS == {"TEF", "P_InitialAccess", "P_IFSReachable", "P_WriteAccess", "P_Secondary"}
TIME_VARS == {"T_DetectDays", "T_RecoveryDays"}
COST_VARS == {"Cost_IR", "Cost_Recovery", "Cost_DowntimePerDay"}

\* --------------------------------------------------- control multipliers
\* max(0.05, 1 - (maturity/5)*strength) in thousandths; strength in hundredths.
multiplierFloorHalf(maturity, strength) == Max(500, 1000 - (maturity * strength * 10) \div 5)
multiplier(maturity, strength) == Max(50, 1000 - (maturity * strength * 10) \div 5)
probabilityMultiplier(maturity) == multiplier(maturity, 85)
timeMultiplier(maturity) == multiplier(maturity, 80)
costMultiplier(maturity) == multiplier(maturity, 70)

\* ------------------------------------------------ effective input resolver
\* controls[c.id] ?? 0
MaturityOf(controls, id) == IF id \in DOMAIN controls THEN controls[id] ELSE 0

\* The product over the control definitions; a definition that does not list
\* the variable contributes the factor 1 (1000 thousandths).
\* The loop without its test of c.variableIds.
RECURSIVE MultiplierFromNoSkip(_, _, _, _)
MultiplierFromNoSkip(i, variableId, controls, defs) ==
  IF i > Len(defs) THEN 1
  ELSE LET c == defs[i]
           m == MaturityOf(controls, c.id)
           f == IF variableId \in PROB_VARS THEN probabilityMultiplier(m)
                ELSE IF variableId \in TIME_VARS THEN timeMultiplier(m)
                ELSE IF variableId \in COST_VARS THEN costMultiplier(m)
                ELSE probabilityMultiplier(m)
       IN f * MultiplierFromNoSkip(i + 1, variableId, controls, defs)

RECURSIVE MultiplierFrom(_, _, _, _)
MultiplierFrom(i, variableId, controls, defs) ==
  IF i > Len(defs) THEN 1
  ELSE LET c == defs[i]
           m == MaturityOf(controls, c.id)
           f == IF variableId \notin c.variableIds THEN 1000
                ELSE IF variableId \in PROB_VARS THEN probabilityMultiplier(m)
                ELSE IF variableId \in TIME_VARS THEN timeMultiplier(m)
                ELSE IF variableId \in COST_VARS THEN costMultiplier(m)
                ELSE probabilityMultiplier(m)
       IN f * MultiplierFrom(i + 1, variableId, controls, defs)

getMultiplierForVariable(variableId, controls, defs) ==
  MultiplierFrom(1, variableId, controls, defs)

\* An InputValue is a function on a subset of {"min","mode","max"}; an absent
\* key is an undefined bound, which stays undefined.
Scaled(val, mult) == [k \in DOMAIN val |-> val[k] * mult]

\* object[id] = value
Assign(object, id, value) ==
  [k \in DOMAIN object \cup {id} |-> IF k = id THEN value ELSE object[k]]

\* out[id] = {...}: the object the loop of getEffectiveInputs assigns to.
AssignTargetInputs == "inputs"
AssignTarget == "out"

\* The loop over Object.entries(inputs), on the objects the function can
\* reach: its three arguments and the local out; ids are the entries to visit.
RECURSIVE EffectiveLoop(_, _)
EffectiveLoop(heap, ids) ==
  IF ids = {} THEN heap
  ELSE LET id == CHOOSE x \in ids : TRUE
           val == heap.inputs[id]
           mult == getMultiplierForVariable(id, heap.controls, heap.controlDefs)
       IN EffectiveLoop([heap EXCEPT ![AssignTarget] = Assign(@, id, Scaled(val, mult))],
                        ids \ {id})

\* The objects when getEffectiveInputs returns.
getEffectiveInputsHeap(inputs, controls, defs) ==
  EffectiveLoop([inputs |-> inputs, controls |-> controls, controlDefs |-> defs, out |-> <<>>],
                DOMAIN inputs)

getEffectiveInputs(inputs, controls, defs) ==
  getEffectiveInputsHeap(inputs, controls, defs).out

\* ------------------------------------------------------ insurance transform
netLossNoCap(grossLoss, deductible, coverageLimit) ==
  IF grossLoss <= deductible THEN grossLoss
  ELSE grossLoss - (grossLoss - deductible)

netLossFlatRecovery(grossLoss, deductible, coverageLimit) ==
  IF grossLoss <= deductible THEN grossLoss
  ELSE grossLoss - coverageLimit

netLossMaxInsured(grossLoss, deductible, coverageLimit) ==
  IF grossLoss <= deductible THEN grossLoss
  ELSE grossLoss - Max(grossLoss - deductible, coverageLimit)

netLoss(grossLoss, deductible, coverageLimit) ==
  IF grossLoss <= deductible THEN grossLoss
  ELSE LET aboveDeductible == grossLoss - deductible
           insured == Min(aboveDeductible, coverageLimit)
       IN grossLoss - insured


\* ------------------------------------------------------------------ arrays
\* A number[] is kept as a sequence of runs of equal consecutive elements,
\* [v |-> value, n |-> count], so that an array of several thousand samples
\* stays small. Indices count from 0 as in the source.
RECURSIVE Length(_)
Length(a) == IF a = <<>> THEN 0 ELSE Head(a).n + Length(Tail(a))

\* a[k]
RECURSIVE At(_, _)
At(a, k) == IF k < Head(a).n THEN Head(a).v ELSE At(Tail(a), k - Head(a).n)

\* a.push(v), k times in a row
Push(a, v, k) == Append(a, [v |-> v, n |-> k])

\* a.slice(0, end)
RECURSIVE Slice(_, _)
Slice(a, end) ==
  IF a = <<>> \/ end <= 0 THEN <<>>
  ELSE IF Head(a).n >= end THEN << [v |-> Head(a).v, n |-> end] >>
  ELSE <<Head(a)>> \o Slice(Tail(a), end - Head(a).n)

\* The number of elements of a equal to v.
RECURSIVE Count(_, _)
Count(a, v) ==
  IF a = <<>> THEN 0
  ELSE (IF Head(a).v = v THEN Head(a).n ELSE 0) + Count(Tail(a), v)

\* a.sort((x, y) => x - y): the smallest value first, then the rest sorted.
SortSkipped(a) == a
RECURSIVE Sort(_)
Sort(a) ==
  IF a = <<>> THEN <<>>
  ELSE LET least == CHOOSE x \in { a[j].v : j \in 1..Len(a) } :
                      \A j \in 1..Len(a) : x <= a[j].v
           NotLeast(r) == r.v # least
       IN << [v |-> least, n |-> Count(a, least)] >> \o Sort(SelectSeq(a, NotLeast))

\* a.reduce((x, y) => x + y, 0)
RECURSIVE Sum(_)
Sum(a) == IF a = <<>> THEN 0 ELSE Head(a).v * Head(a).n + Sum(Tail(a))

\* ---------------------------------------------------------------- percentile
\* percentile(sorted, p) with p in hundredths; the value is in hundredths of
\* the unit of the elements (i is a hundredth of an index).
percentileSwappedWeights(sorted, p) ==
  IF Length(sorted) = 0 THEN 0
  ELSE LET i == p * (Length(sorted) - 1)
           lo == i \div 100
           hi == IF i % 100 = 0 THEN lo ELSE lo + 1
       IN IF lo = hi THEN 100 * At(sorted, lo)
          ELSE At(sorted, lo) * (i - 100 * lo) + At(sorted, hi) * (100 - (i - 100 * lo))

percentile(sorted, p) ==
  IF Length(sorted) = 0 THEN 0
  ELSE LET i == p * (Length(sorted) - 1)
           lo == i \div 100
           hi == IF i % 100 = 0 THEN lo ELSE lo + 1
       IN IF lo = hi THEN 100 * At(sorted, lo)
          ELSE At(sorted, lo) * (100 - (i - 100 * lo)) + At(sorted, hi) * (i - 100 * lo)


\* =========================================================== program state
VARIABLES
  inputs,            \* store: the inputs object; ref is its identity, val its content
  controls,          \* store: the controls object (control id -> maturity)
  archetype,         \* store: the selected archetype, NoArchetype for null
  simulationResults, \* store: the last SimulationResults written
  debouncedInputs,   \* useDebounce(inputs, 500): the debounced state
  debouncedControls, \* useDebounce(controls, 500): the debounced state
  inputTimers,       \* pending setTimeout callbacks of useDebounce(inputs), by captured value
  controlTimers,     \* pending setTimeout callbacks of useDebounce(controls)
  isRunning,         \* useState(false)
  workerRef,         \* workerRef.current: index into workers, 0 for null
  workers,           \* every Worker constructed so far, in order of construction
  lastReq,           \* number of runSimulation calls made so far
  lastCall,          \* the arguments and resolved values of the latest runSimulation call
  resultRun,         \* the runSimulation call whose result simulationResults holds
  failureLog,        \* the records of worker failures the scheduler has written
  call,              \* netLoss: the latest evaluation [grossLoss, deductible, coverageLimit, net]
  prevCall,          \* netLoss: the evaluation before it
  pcall,             \* percentile: the latest evaluation [sorted, p, value]
  request,           \* driver: the run being executed [path, deductible, coverageLimit, ...]
  grosses,           \* driver: the grosses array
  nets,              \* driver: the nets array
  calls,             \* driver: number of runOneIteration calls made by the main loop
  driverResults,     \* driver: the SimulationResults returned or posted, NoResult before
  sweep,             \* worker: the latest sensitivity sweep [baselineP90, perturbedP90, topDriver]
  mult,              \* control multipliers: the latest evaluation [family, maturity, value]
  prevMult,          \* control multipliers: the evaluation before it
  baseline,          \* resolver: the objects passed to getEffectiveInputs [inputs, controls, controlDefs]
  resolution,        \* resolver: the latest call [inputs, controls at entry, out returned]
  credit,            \* DSCR: the latest evaluation [arguments, stage, ds, value]
  scenarios,           \* scenario store: SECURITY_SCENARIOS
  currentScenarioIndex,\* scenario store: index of the current scenario, from 0
  currentStepIndex,    \* scenario store: index of the current step, from 0
  activeMetrics,       \* scenario store: the metrics after the choices made
  showResults,         \* scenario store: pausing on the effects of a choice
  lastChoiceImpact,    \* scenario store: the impact of the last choice, NoImpact for null
  simulationComplete,  \* scenario store: the last step of the last scenario was finished
  storeAction,         \* scenario store: the action called last and its argument
  perturbation,        \* worker: the sensitivity loop [effective, candidate, perturbed, trials]
  triangular,          \* sampler: the latest sampleTriangular call [min, mode, max, u, c, value]
  iteration            \* engine: one runOneIteration call [effective, samples, lambda, gross, net]

storeVars == <<inputs, controls, archetype, simulationResults>>
debounceVars == <<debouncedInputs, debouncedControls, inputTimers, controlTimers>>
runVars == <<isRunning, workerRef, workers, lastReq, lastCall, resultRun>>
logVars == <<failureLog>>
insuranceVars == <<call, prevCall>>
percentileVars == <<pcall>>
driverVars == <<request, grosses, nets, calls, driverResults>>
sweepVars == <<sweep>>
multiplierVars == <<mult, prevMult>>
resolverVars == <<baseline, resolution>>
creditVars == <<credit>>
scenarioVars ==
  <<scenarios, currentScenarioIndex, currentStepIndex, activeMetrics, showResults,
    lastChoiceImpact, simulationComplete, storeAction>>
perturbVars == <<perturbation>>
samplerVars == <<triangular>>
iterationVars == <<iteration>>
auxiliaryVars == <<creditVars, scenarioVars, perturbVars, samplerVars, iterationVars>>
engineVars ==
  <<insuranceVars, percentileVars, driverVars, sweepVars, multiplierVars, resolverVars>>
schedulerVars == <<storeVars, debounceVars, runVars, logVars>>
functionVars ==
  <<insuranceVars, percentileVars, driverVars, sweepVars, multiplierVars, resolverVars,
    auxiliaryVars>>
vars == <<storeVars, debounceVars, runVars, logVars, functionVars>>

\* The request of a worker whose message was answered, or discarded by terminate().
NoRequest == [iterationCount |-> 0]

\* ------------------------------------------------------ simulation driver
\* runSync: the statistics are random; the model keeps what they were computed
\* from, the iteration count reported, the cap on lossSamples, and whether the
\* sensitivity sweep ran (it fixes topDriver when it did not).
runSync(effective, deductible, coverageLimit, iterations) ==
  [ effective |-> effective, deductible |-> deductible, coverageLimit |-> coverageLimit,
    iterationCount |-> iterations, sweep |-> FALSE, maxSamples |-> 1000 ]

\* The worker's test for running the sensitivity sweep.
SweepRunsAlways(data) == data.runSensitivity
SweepRuns(data) == data.runSensitivity /\ data.iterationCount >= 1000

\* self.onmessage: the results the worker may post for a request.
WorkerResults(data) ==
  { [ effective |-> data.effective, deductible |-> data.deductible,
      coverageLimit |-> data.coverageLimit, iterationCount |-> data.iterationCount,
      sweep |-> SweepRuns(data), maxSamples |-> 5000 ] }

\* --------------------------------------------------------------- scheduler
\* useDebounce's effect on a change of value: the cleanup of the previous
\* effect clears its timer, then a new timer capturing the value is set.
UseDebounceNoCleanup(timers, value) == timers \cup {value}
UseDebounceEffect(timers, value) == {value}

\* iterationCount <= 3000: run on the calling thread.
RunsSynchronouslyBelow(iterationCount) == iterationCount < 3000
RunsSynchronously(iterationCount) == iterationCount <= 3000

\* iterationCount >= 5000: resolve from the raw inputs and controls.
UsesRawInputsAlways(iterationCount) == iterationCount > 3000
UsesRawInputs(iterationCount) == iterationCount >= 5000

\* runSensitivity || iterationCount >= 10000
RequestsSensitivityStrict(iterationCount, runSensitivity) ==
  runSensitivity \/ iterationCount > 10000
RequestsSensitivity(iterationCount, runSensitivity) ==
  runSensitivity \/ iterationCount >= 10000

\* Math.min(iterationCount, 5000)
FallbackIterationsUncapped(iterationCount) == iterationCount
FallbackIterations(iterationCount) == Min(iterationCount, 5000)

\* if (workerRef.current) workerRef.current.terminate()
TerminatePreviousSkipped(ws, ref) == ws
TerminatePrevious(ws, ref) ==
  IF ref # 0 THEN [ws EXCEPT ![ref].terminated = TRUE, ![ref].data = NoRequest] ELSE ws

Deductible(arch) ==
  IF arch = NoArchetype THEN DEFAULT_DEDUCTIBLE ELSE arch.deductible
CoverageLimit(arch) ==
  IF arch = NoArchetype THEN DEFAULT_COVERAGE ELSE arch.coverageLimit

\* A worker holds a request that is neither answered nor cancelled.
InFlight(w) == w.status = "inflight" /\ ~w.terminated

\* runSimulation(iterationCount, runSensitivity), as the closure of the render
\* in which debouncedInputs = dInp, debouncedControls = dCtl, archetype = arch.
RunSimulation(iterationCount, runSensitivity, dInp, dCtl, arch) ==
  LET eff == getEffectiveInputs(
               IF UsesRawInputs(iterationCount) THEN inputs.val ELSE dInp.val,
               IF UsesRawInputs(iterationCount) THEN controls.val ELSE dCtl.val,
               controlDefs)
      deductible == Deductible(arch)
      coverageLimit == CoverageLimit(arch)
      req == lastReq + 1
  IN /\ lastReq' = req
     /\ lastCall' = [ iterationCount |-> iterationCount, runSensitivity |-> runSensitivity,
                      eff |-> eff, deductible |-> deductible, coverageLimit |-> coverageLimit ]
     /\ IF RunsSynchronously(iterationCount)
        THEN /\ simulationResults' = runSync(eff, deductible, coverageLimit, iterationCount)
             /\ resultRun' = req
             /\ isRunning' = FALSE
             /\ UNCHANGED <<workerRef, workers>>
        ELSE /\ workers' = Append(TerminatePrevious(workers, workerRef),
                             [ req |-> req, status |-> "inflight", terminated |-> FALSE,
                               data |-> [ effective |-> eff, deductible |-> deductible,
                                          coverageLimit |-> coverageLimit,
                                          iterationCount |-> iterationCount,
                                          runSensitivity |->
                                            RequestsSensitivity(iterationCount, runSensitivity) ] ])
             /\ workerRef' = Len(workers) + 1
             /\ isRunning' = TRUE
             /\ UNCHANGED <<simulationResults, resultRun>>

\* The caller (a button of the UI) invokes runSimulation of the current render.
UserRun(iterationCount, runSensitivity) ==
  /\ lastReq < MaxRuns
  /\ RunSimulation(iterationCount, runSensitivity, debouncedInputs, debouncedControls, archetype)
  /\ UNCHANGED <<inputs, controls, archetype, debounceVars, logVars, functionVars>>

\* setInput(id, value): a new inputs object; the re-render restarts the timer.
SetInput(id, value) ==
  /\ inputs.ref + controls.ref < MaxChanges
  /\ inputs' = [ref |-> inputs.ref + 1,
                val |-> [k \in DOMAIN inputs.val \cup {id} |->
                           IF k = id THEN value ELSE inputs.val[k]]]
  /\ inputTimers' = UseDebounceEffect(inputTimers, inputs')
  /\ UNCHANGED <<controls, archetype, simulationResults, debouncedInputs,
                 debouncedControls, controlTimers, runVars, logVars, functionVars>>

\* setControl(id, maturity)
SetControl(id, maturity) ==
  /\ inputs.ref + controls.ref < MaxChanges
  /\ controls' = [ref |-> controls.ref + 1,
                  val |-> [k \in DOMAIN controls.val \cup {id} |->
                             IF k = id THEN maturity ELSE controls.val[k]]]
  /\ controlTimers' = UseDebounceEffect(controlTimers, controls')
  /\ UNCHANGED <<inputs, archetype, simulationResults, debouncedInputs,
                 debouncedControls, inputTimers, runVars, logVars, functionVars>>

\* setArchetype: archetype?.id changes, so the effect runs runSimulation(2000, false).
SetArchetype(a) ==
  /\ lastReq < MaxRuns
  /\ a.id # archetype.id
  /\ archetype' = a
  /\ RunSimulation(2000, FALSE, debouncedInputs, debouncedControls, a)
  /\ UNCHANGED <<inputs, controls, debounceVars, logVars, functionVars>>

\* The timer of useDebounce(inputs) fires: setDebounced(value). A new object
\* re-renders and the effect runs runSimulation(2000, false); the same object
\* leaves the state as it is.
InputTimerFires(t) ==
  /\ t \in inputTimers
  /\ inputTimers' = inputTimers \ {t}
  /\ debouncedInputs' = t
  /\ IF t # debouncedInputs
     THEN RunSimulation(2000, FALSE, t, debouncedControls, archetype)
     ELSE UNCHANGED runVars /\ UNCHANGED simulationResults
  /\ UNCHANGED <<inputs, controls, archetype, debouncedControls, controlTimers, logVars, functionVars>>

ControlTimerFires(t) ==
  /\ t \in controlTimers
  /\ controlTimers' = controlTimers \ {t}
  /\ debouncedControls' = t
  /\ IF t # debouncedControls
     THEN RunSimulation(2000, FALSE, debouncedInputs, t, archetype)
     ELSE UNCHANGED runVars /\ UNCHANGED simulationResults
  /\ UNCHANGED <<inputs, controls, archetype, debouncedInputs, inputTimers, logVars, functionVars>>

\* worker.onmessage: the worker posts its one result.
WorkerMessage(w, result) ==
  /\ w \in 1..Len(workers)
  /\ InFlight(workers[w])
  /\ result \in WorkerResults(workers[w].data)
  /\ simulationResults' = result
  /\ resultRun' = workers[w].req
  /\ isRunning' = FALSE
  /\ workers' = [workers EXCEPT ![w].status = "done", ![w].terminated = TRUE,
                                 ![w].data = NoRequest]
  /\ workerRef' = 0
  /\ UNCHANGED <<inputs, controls, archetype, debounceVars, lastReq, lastCall, logVars, functionVars>>

\* worker.onerror: the synchronous fallback. The handler takes no error event
\* and writes no record of the failure; it does not terminate the worker.
WorkerErrorDropped(w) ==
  /\ w \in 1..Len(workers)
  /\ InFlight(workers[w])
  /\ workers' = [workers EXCEPT ![w].status = "errored", ![w].data = NoRequest]
  /\ workerRef' = 0
  /\ UNCHANGED <<storeVars, debounceVars, isRunning, lastReq, lastCall, resultRun, logVars, functionVars>>

WorkerError(w) ==
  /\ w \in 1..Len(workers)
  /\ InFlight(workers[w])
  /\ LET d == workers[w].data
     IN simulationResults' = runSync(d.effective, d.deductible, d.coverageLimit,
                                     FallbackIterations(d.iterationCount))
  /\ resultRun' = workers[w].req
  /\ isRunning' = FALSE
  /\ workers' = [workers EXCEPT ![w].status = "errored", ![w].data = NoRequest]
  /\ workerRef' = 0
  /\ UNCHANGED <<inputs, controls, archetype, debounceVars, lastReq, lastCall, logVars, functionVars>>

\* ------------------------------------------------------------ initial state
\* The state after the first render and its effects: both debounce timers are
\* set and the mount effect has run runSimulation(2000, false).
InitialInputs == [ref |-> 0, val |-> [x \in {"TEF"} |-> [min |-> 500, mode |-> 1000, max |-> 2000]]]
InitialControls == [ref |-> 0, val |-> <<>>]
InitialCall == [grossLoss |-> 0, deductible |-> 0, coverageLimit |-> 0, net |-> netLoss(0, 0, 0)]

SchedulerInit ==
  /\ inputs = InitialInputs
  /\ controls = InitialControls
  /\ archetype = NoArchetype
  /\ debouncedInputs = InitialInputs
  /\ debouncedControls = InitialControls
  /\ inputTimers = {InitialInputs}
  /\ controlTimers = {InitialControls}
  /\ LET eff == getEffectiveInputs(InitialInputs.val, InitialControls.val, controlDefs)
     IN /\ simulationResults = runSync(eff, DEFAULT_DEDUCTIBLE, DEFAULT_COVERAGE, 2000)
        /\ lastCall = [ iterationCount |-> 2000, runSensitivity |-> FALSE, eff |-> eff,
                        deductible |-> DEFAULT_DEDUCTIBLE, coverageLimit |-> DEFAULT_COVERAGE ]
  /\ resultRun = 1
  /\ lastReq = 1
  /\ isRunning = FALSE
  /\ workerRef = 0
  /\ workers = <<>>
  /\ failureLog = <<>>

\* The state of a part of the program that a specification leaves alone.
NoResult == [iterationCount |-> 0]
InsuranceIdle == call = InitialCall /\ prevCall = InitialCall
PercentileIdle == pcall = [sorted |-> <<>>, p |-> 0, value |-> 0]
DriverIdle ==
  /\ request = NoRequest
  /\ grosses = <<>>
  /\ nets = <<>>
  /\ calls = 0
  /\ driverResults = NoResult
SweepIdle == sweep = [baselineP90 |-> 0, perturbedP90 |-> <<>>, topDriver |-> "P_WriteAccess"]
ResolverIdle ==
  /\ baseline = [inputs |-> <<>>, controls |-> <<>>, controlDefs |-> <<>>]
  /\ resolution = [inputs |-> <<>>, controls |-> <<>>, out |-> <<>>]
MultiplierIdle ==
  /\ mult = [family |-> "probability", maturity |-> 0, value |-> probabilityMultiplier(0)]
  /\ prevMult = mult
CreditIdle ==
  credit = [ cfadsValue |-> 0, totalDebt |-> 0, interestRate |-> 0, amortTermYears |-> 0,
             stage |-> "idle", ds |-> [n |-> 0, d |-> 1], value |-> [n |-> 0, d |-> 1] ]
NoImpact == [label |-> "null", metricDeltas |-> <<>>]
ScenarioIdle ==
  /\ scenarios = <<>>
  /\ currentScenarioIndex = 0
  /\ currentStepIndex = 0
  /\ activeMetrics = <<>>
  /\ showResults = FALSE
  /\ lastChoiceImpact = NoImpact
  /\ simulationComplete = FALSE
  /\ storeAction = [name |-> "create", arg |-> 0]
PerturbIdle ==
  perturbation = [ original |-> <<>>, effective |-> <<>>, iterationCount |-> 0,
                   candidate |-> 0, perturbed |-> <<>>, trials |-> 0, batches |-> 0,
                   stage |-> "idle" ]
SamplerIdle ==
  triangular = [ min |-> 0, mode |-> 0, max |-> 0, u |-> 0, quotient |-> [n |-> 0, d |-> 1],
                 c |-> [n |-> 0, d |-> 1], value |-> [base |-> 0, sign |-> 1, rad |-> 0],
                 stage |-> "idle" ]
IterationIdle ==
  iteration = [ effective |-> <<>>, deductible |-> 0, coverageLimit |-> 0, samples |-> <<>>,
                lambda |-> 0, draws |-> 0, eventCount |-> 0, events |-> 0, gross |-> 0,
                net |-> 0, stage |-> "idle" ]
AuxiliaryIdle == CreditIdle /\ ScenarioIdle /\ PerturbIdle /\ SamplerIdle /\ IterationIdle

Init ==
  /\ SchedulerInit
  /\ AuxiliaryIdle
  /\ InsuranceIdle
  /\ PercentileIdle
  /\ DriverIdle
  /\ SweepIdle
  /\ MultiplierIdle
  /\ ResolverIdle

WorkerFinishes ==
  \E w \in { i \in 1..Len(workers) : InFlight(workers[i]) } :
    \/ \E result \in WorkerResults(workers[w].data) : WorkerMessage(w, result)
    \/ WorkerError(w)

Next ==
  \/ \E c \in RunChoices : UserRun(c[1], c[2])
  \/ \E v \in InputChoices : SetInput("TEF", v)
  \/ \E m \in MaturityChoices : SetControl("patching", m)
  \/ \E a \in Archetypes \cup {NoArchetype} : SetArchetype(a)
  \/ \E t \in inputTimers : InputTimerFires(t)
  \/ \E t \in controlTimers : ControlTimerFires(t)
  \/ WorkerFinishes

Spec == Init /\ [][Next]_vars

\* A dispatched worker eventually posts its result or signals an error.
FairSpec == Spec /\ WF_vars(WorkerFinishes)


\* ------------------------------------------- the insurance transform alone
\* netLoss applied to every gross loss under every policy within MaxLoss; the
\* previous evaluation under the same policy is kept beside the latest.
Evaluate(grossLoss, deductible, coverageLimit) ==
  [ grossLoss |-> grossLoss, deductible |-> deductible, coverageLimit |-> coverageLimit,
    net |-> netLoss(grossLoss, deductible, coverageLimit) ]

InsuranceInit ==
  /\ SchedulerInit
  /\ AuxiliaryIdle
  /\ PercentileIdle
  /\ DriverIdle
  /\ SweepIdle
  /\ MultiplierIdle
  /\ ResolverIdle
  /\ \E g \in 0..MaxLoss, d \in 0..MaxLoss, c \in 0..MaxLoss : call = Evaluate(g, d, c)
  /\ prevCall = call

NetLossCall(grossLoss) ==
  /\ call' = Evaluate(grossLoss, call.deductible, call.coverageLimit)
  /\ prevCall' = call
  /\ UNCHANGED <<schedulerVars, auxiliaryVars, percentileVars, driverVars, sweepVars, multiplierVars, resolverVars>>

InsuranceNext == \E g \in 0..MaxLoss : NetLossCall(g)

InsuranceSpec == InsuranceInit /\ [][InsuranceNext]_vars


\* ------------------------------------------------------ percentile alone
\* The ascending array in which the value v occurs counts[v] times.
RECURSIVE ArrayFrom(_, _)
ArrayFrom(counts, v) ==
  IF v > MaxGross THEN <<>>
  ELSE (IF counts[v] = 0 THEN <<>> ELSE << [v |-> v, n |-> counts[v]] >>)
         \o ArrayFrom(counts, v + 1)

\* Every ascending array over 0..MaxGross with each value at most twice.
SortedArrays == { ArrayFrom(counts, 0) : counts \in [0..MaxGross -> 0..2] }

PercentileOf(sorted, p) == [sorted |-> sorted, p |-> p, value |-> percentile(sorted, p)]

PercentileCall(sorted, p) ==
  /\ pcall' = PercentileOf(sorted, p)
  /\ UNCHANGED <<schedulerVars, auxiliaryVars, insuranceVars, driverVars, sweepVars, multiplierVars, resolverVars>>

PercentileInit ==
  /\ SchedulerInit
  /\ AuxiliaryIdle
  /\ InsuranceIdle
  /\ DriverIdle
  /\ SweepIdle
  /\ MultiplierIdle
  /\ ResolverIdle
  /\ PercentileIdle

PercentileNext == \E sorted \in SortedArrays, p \in PChoices : PercentileCall(sorted, p)

PercentileSpec == PercentileInit /\ [][PercentileNext]_vars

\* ------------------------------------------------------- the driver alone
\* runOneIteration(effective, deductible, coverageLimit): the gross loss is
\* random, the net loss is netLoss of it.
runOneIteration(deductible, coverageLimit) ==
  { [gross |-> g, net |-> netLoss(g, deductible, coverageLimit)] : g \in 0..MaxGross }

DriverRequests ==
  { [path |-> "sync", deductible |-> pol[1], coverageLimit |-> pol[2],
     iterationCount |-> n, runSensitivity |-> FALSE] : pol \in Policies, n \in SyncCounts }
  \cup
  { [path |-> "worker", deductible |-> pol[1], coverageLimit |-> pol[2],
     iterationCount |-> r[1], runSensitivity |-> r[2]] : pol \in Policies, r \in WorkerRuns }

\* for (let i = 0; i < iterations; i++)
LoopContinuesInclusive(i, iterations) == i <= iterations
LoopContinues(i, iterations) == i < iterations

\* The lengths of the next batch of iterations: one iteration, a thousand, or
\* all that remain; the last batch within MaxBatches takes all that remain.
BatchSizes ==
  IF Len(grosses) < MaxBatches - 1
  THEN {1} \cup { k \in {1000, request.iterationCount - calls} :
                   k >= 1 /\ calls + k <= request.iterationCount }
  ELSE { Max(1, request.iterationCount - calls) }

\* k iterations of the main loop in which runOneIteration returned out.
Iterate(k, out) ==
  /\ driverResults = NoResult
  /\ LoopContinues(calls, request.iterationCount)
  /\ grosses' = Push(grosses, out.gross, k)
  /\ nets' = Push(nets, out.net, k)
  /\ calls' = calls + k
  /\ UNCHANGED <<request, driverResults>>
  /\ UNCHANGED <<schedulerVars, auxiliaryVars, insuranceVars, percentileVars, sweepVars, multiplierVars, resolverVars>>

\* The object runSync returns, from the sorted arrays.
runSyncReturnGrossMedian(sortedGrosses, sortedNets, iterations) ==
  [ mean |-> [sum |-> Sum(sortedNets), count |-> Length(sortedNets)],
    median |-> percentile(sortedNets, 50),
    p50 |-> percentile(sortedNets, 50),
    p90 |-> percentile(sortedNets, 90),
    p95 |-> percentile(sortedNets, 95),
    grossP90 |-> percentile(sortedGrosses, 50),
    netP90 |-> percentile(sortedNets, 90),
    topDriver |-> "P_WriteAccess",
    iterationCount |-> iterations,
    lossSamples |-> Slice(sortedNets, 1000) ]

runSyncReturn(sortedGrosses, sortedNets, iterations) ==
  [ mean |-> [sum |-> Sum(sortedNets), count |-> Length(sortedNets)],
    median |-> percentile(sortedNets, 50),
    p50 |-> percentile(sortedNets, 50),
    p90 |-> percentile(sortedNets, 90),
    p95 |-> percentile(sortedNets, 95),
    grossP90 |-> percentile(sortedGrosses, 90),
    netP90 |-> percentile(sortedNets, 90),
    topDriver |-> "P_WriteAccess",
    iterationCount |-> iterations,
    lossSamples |-> Slice(sortedNets, 1000) ]

\* The rest of runSync after its loop: both arrays are sorted in place.
RunSyncEnds ==
  /\ request.path = "sync"
  /\ driverResults = NoResult
  /\ ~LoopContinues(calls, request.iterationCount)
  /\ grosses' = Sort(grosses)
  /\ nets' = Sort(nets)
  /\ driverResults' = runSyncReturn(grosses', nets', request.iterationCount)
  /\ UNCHANGED <<request, calls>>
  /\ UNCHANGED <<schedulerVars, auxiliaryVars, insuranceVars, percentileVars, sweepVars, multiplierVars, resolverVars>>

\* if (delta > maxDelta)
ExceedsOrEquals(delta, maxDelta) == delta >= maxDelta
Exceeds(delta, maxDelta) == delta > maxDelta

\* The loop over SENSITIVITY_VARS from candidate j on; perturbedP90[j] is the
\* net P90 of the reduced run with candidate j perturbed.
RECURSIVE SweepFrom(_, _, _, _, _)
SweepFrom(j, maxDelta, topDriver, baselineP90, perturbedP90) ==
  IF j > Len(SENSITIVITY_VARS) THEN topDriver
  ELSE LET delta == perturbedP90[j] - baselineP90
       IN IF Exceeds(delta, maxDelta)
          THEN SweepFrom(j + 1, delta, SENSITIVITY_VARS[j], baselineP90, perturbedP90)
          ELSE SweepFrom(j + 1, maxDelta, topDriver, baselineP90, perturbedP90)

\* The sweep branch of the worker; "undefined" stands for an unset topDriver.
sensitivitySweep(baselineP90, perturbedP90) ==
  LET topDriver == SweepFrom(1, 0, "undefined", baselineP90, perturbedP90)
  IN IF topDriver = "undefined" THEN SENSITIVITY_VARS[1] ELSE topDriver

\* The net P90 a reduced run may give, in hundredths.
P90Choices == { 100 * g : g \in 0..MaxGross }

\* The topDriver the worker may arrive at for a request with this baseline.
TopDrivers(data, baselineP90) ==
  IF SweepRuns(data)
  THEN { sensitivitySweep(baselineP90, perturbedP90) :
           perturbedP90 \in [1..Len(SENSITIVITY_VARS) -> {0, 100 * MaxGross}] }
  ELSE {"P_WriteAccess"}

\* The message the worker posts.
postMessage(sortedGrosses, sortedNets, iterationCount, topDriver) ==
  [ mean |-> [sum |-> Sum(sortedNets), count |-> Length(sortedNets)],
    median |-> percentile(sortedNets, 50),
    p50 |-> percentile(sortedNets, 50),
    p90 |-> percentile(sortedNets, 90),
    p95 |-> percentile(sortedNets, 95),
    grossP90 |-> percentile(sortedGrosses, 90),
    netP90 |-> percentile(sortedNets, 90),
    topDriver |-> topDriver,
    iterationCount |-> iterationCount,
    lossSamples |-> Slice(sortedNets, 5000) ]

\* The rest of self.onmessage after its main loop.
WorkerPosts(topDriver) ==
  /\ request.path = "worker"
  /\ driverResults = NoResult
  /\ ~LoopContinues(calls, request.iterationCount)
  /\ grosses' = Sort(grosses)
  /\ nets' = Sort(nets)
  /\ topDriver \in TopDrivers(request, percentile(nets', 90))
  /\ driverResults' = postMessage(grosses', nets', request.iterationCount, topDriver)
  /\ UNCHANGED <<request, calls>>
  /\ UNCHANGED <<schedulerVars, auxiliaryVars, insuranceVars, percentileVars, sweepVars, multiplierVars, resolverVars>>

DriverInit ==
  /\ SchedulerInit
  /\ AuxiliaryIdle
  /\ InsuranceIdle
  /\ PercentileIdle
  /\ SweepIdle
  /\ MultiplierIdle
  /\ ResolverIdle
  /\ request \in DriverRequests
  /\ grosses = <<>>
  /\ nets = <<>>
  /\ calls = 0
  /\ driverResults = NoResult

DriverNext ==
  \/ \E k \in BatchSizes :
       \E out \in runOneIteration(request.deductible, request.coverageLimit) : Iterate(k, out)
  \/ RunSyncEnds
  \/ \E topDriver \in {"undefined"} \cup { SENSITIVITY_VARS[j] : j \in 1..Len(SENSITIVITY_VARS) } :
       WorkerPosts(topDriver)

DriverSpec == DriverInit /\ [][DriverNext]_vars

\* ------------------------------------------------ the sensitivity sweep alone
\* The sweep branch of the worker on every baseline net P90 and every five
\* perturbed net P90s within MaxGross; topDriver is unset until the branch runs.
SweepOf(baselineP90, perturbedP90) ==
  [ baselineP90 |-> baselineP90, perturbedP90 |-> perturbedP90,
    topDriver |-> sensitivitySweep(baselineP90, perturbedP90) ]

SweepCall ==
  /\ sweep.topDriver = "undefined"
  /\ sweep' = SweepOf(sweep.baselineP90, sweep.perturbedP90)
  /\ UNCHANGED <<schedulerVars, auxiliaryVars, insuranceVars, percentileVars, driverVars, multiplierVars, resolverVars>>

SweepInit ==
  /\ SchedulerInit
  /\ AuxiliaryIdle
  /\ InsuranceIdle
  /\ PercentileIdle
  /\ DriverIdle
  /\ MultiplierIdle
  /\ ResolverIdle
  /\ \E baselineP90 \in P90Choices :
       \E perturbedP90 \in [1..Len(SENSITIVITY_VARS) -> P90Choices] :
         sweep = [ baselineP90 |-> baselineP90, perturbedP90 |-> perturbedP90,
                   topDriver |-> "undefined" ]

SweepNext == SweepCall

SweepSpec == SweepInit /\ [][SweepNext]_vars

\* ------------------------------------------------ control multipliers alone
\* The three exported multipliers at every maturity of ControlMaturity.
Families == {"probability", "time", "cost"}
Maturities == 0..5

MultiplierOf(family, maturity) ==
  [ family |-> family, maturity |-> maturity,
    value |-> IF family = "probability" THEN probabilityMultiplier(maturity)
              ELSE IF family = "time" THEN timeMultiplier(maturity)
              ELSE costMultiplier(maturity) ]

MultiplierCall(family, maturity) ==
  /\ mult' = MultiplierOf(family, maturity)
  /\ prevMult' = mult
  /\ UNCHANGED <<schedulerVars, auxiliaryVars, insuranceVars, percentileVars, driverVars, sweepVars, resolverVars>>

MultiplierInit ==
  /\ SchedulerInit
  /\ AuxiliaryIdle
  /\ InsuranceIdle
  /\ PercentileIdle
  /\ DriverIdle
  /\ SweepIdle
  /\ MultiplierIdle
  /\ ResolverIdle

MultiplierNext == \E family \in Families, maturity \in Maturities : MultiplierCall(family, maturity)

MultiplierSpec == MultiplierInit /\ [][MultiplierNext]_vars

\* ------------------------------------------------------- the resolver alone
\* A render of the component: getEffectiveInputs is called with the store's
\* inputs and controls objects and scenario.controls; the objects are passed
\* by reference, so what the call leaves in them is what the store holds.
Render(store) ==
  LET heap == getEffectiveInputsHeap(store.inputs, store.controls, store.controlDefs)
  IN /\ baseline' = [ inputs |-> heap.inputs, controls |-> heap.controls,
                      controlDefs |-> heap.controlDefs ]
     /\ resolution' = [ inputs |-> store.inputs, controls |-> store.controls,
                        out |-> heap.out ]

\* setInput(id, value), then the render it causes.
ResolverSetInput(id, value) ==
  /\ Render([baseline EXCEPT !.inputs = Assign(@, id, value)])
  /\ UNCHANGED <<schedulerVars, auxiliaryVars, insuranceVars, percentileVars, driverVars, sweepVars,
                 multiplierVars>>

\* setControl(id, maturity), then the render it causes.
ResolverSetControl(id, maturity) ==
  /\ Render([baseline EXCEPT !.controls = Assign(@, id, maturity)])
  /\ UNCHANGED <<schedulerVars, auxiliaryVars, insuranceVars, percentileVars, driverVars, sweepVars,
                 multiplierVars>>

\* The first render: defaultInputs (here TEF alone) and no control set.
ResolverInit ==
  /\ SchedulerInit
  /\ AuxiliaryIdle
  /\ InsuranceIdle
  /\ PercentileIdle
  /\ DriverIdle
  /\ SweepIdle
  /\ MultiplierIdle
  /\ LET store == [ inputs |-> InitialInputs.val, controls |-> InitialControls.val,
                    controlDefs |-> ResolverDefs ]
         heap == getEffectiveInputsHeap(store.inputs, store.controls, store.controlDefs)
     IN /\ baseline = [ inputs |-> heap.inputs, controls |-> heap.controls,
                        controlDefs |-> heap.controlDefs ]
        /\ resolution = [ inputs |-> store.inputs, controls |-> store.controls,
                          out |-> heap.out ]

ResolverNext ==
  \/ \E id \in ResolverVariables, value \in InputChoices : ResolverSetInput(id, value)
  \/ \E c \in 1..Len(ResolverDefs), maturity \in ResolverMaturities :
       ResolverSetControl(ResolverDefs[c].id, maturity)

ResolverSpec == ResolverInit /\ [][ResolverNext]_vars

\* --------------------------------------------------------------- DSCR alone
\* Numbers are fractions [n, d] with d >= 0; d = 0 is the non-finite result of
\* a division by zero (Infinity for n > 0, -Infinity for n < 0, NaN for n = 0).
Rat(n, d) == IF d < 0 THEN [n |-> -n, d |-> -d] ELSE [n |-> n, d |-> d]
RatAdd(a, b) == Rat(a.n * b.d + b.n * a.d, a.d * b.d)
RatMul(a, b) == Rat(a.n * b.n, a.d * b.d)
RatDiv(a, b) == Rat(a.n * b.d, a.d * b.n)
RatPositive(a) == a.n > 0
Finite(a) == a.d # 0

\* debtService(totalDebt, interestRate, amortTermYears); the rate in percent.
debtServiceUnguarded(totalDebt, interestRate, amortTermYears) ==
  RatAdd(RatMul(Rat(totalDebt, 1), Rat(interestRate, 100)),
         RatDiv(Rat(totalDebt, 1), Rat(amortTermYears, 1)))
debtService(totalDebt, interestRate, amortTermYears) ==
  IF amortTermYears <= 0
  THEN RatMul(Rat(totalDebt, 1), Rat(interestRate, 100))
  ELSE RatAdd(RatMul(Rat(totalDebt, 1), Rat(interestRate, 100)),
              RatDiv(Rat(totalDebt, 1), Rat(amortTermYears, 1)))

\* dscr(cfadsValue, totalDebt, interestRate, amortTermYears)
dscrUnguarded(cfadsValue, totalDebt, interestRate, amortTermYears) ==
  RatDiv(Rat(cfadsValue, 1), debtService(totalDebt, interestRate, amortTermYears))
dscr(cfadsValue, totalDebt, interestRate, amortTermYears) ==
  LET ds == debtService(totalDebt, interestRate, amortTermYears)
  IN IF RatPositive(ds) THEN RatDiv(Rat(cfadsValue, 1), ds) ELSE Rat(0, 1)

CfadsChoices == {-35, 0, 52}
DebtChoices == {-100, 0, 100}
RateChoices == {0, 6}
TermChoices == -1..MaxTerm

\* A caller evaluates debtService on the arguments at hand.
DebtServiceCall ==
  /\ credit.stage = "arguments"
  /\ credit' = [credit EXCEPT
       !.stage = "debtService",
       !.ds = debtService(credit.totalDebt, credit.interestRate, credit.amortTermYears)]
  /\ UNCHANGED <<schedulerVars, engineVars, scenarioVars, perturbVars, samplerVars, iterationVars>>

\* A caller evaluates dscr on the same arguments.
DscrCall ==
  /\ credit.stage = "debtService"
  /\ credit' = [credit EXCEPT
       !.stage = "dscr",
       !.value = dscr(credit.cfadsValue, credit.totalDebt, credit.interestRate,
                      credit.amortTermYears)]
  /\ UNCHANGED <<schedulerVars, engineVars, scenarioVars, perturbVars, samplerVars, iterationVars>>

EngineIdle ==
  /\ InsuranceIdle
  /\ PercentileIdle
  /\ DriverIdle
  /\ SweepIdle
  /\ MultiplierIdle
  /\ ResolverIdle

CreditInit ==
  /\ SchedulerInit
  /\ EngineIdle
  /\ ScenarioIdle
  /\ PerturbIdle
  /\ SamplerIdle
  /\ IterationIdle
  /\ \E c \in CfadsChoices, debt \in DebtChoices, r \in RateChoices, t \in TermChoices :
       credit = [ cfadsValue |-> c, totalDebt |-> debt, interestRate |-> r,
                  amortTermYears |-> t, stage |-> "arguments",
                  ds |-> Rat(0, 1), value |-> Rat(0, 1) ]

CreditNext == DebtServiceCall \/ DscrCall

CreditSpec == CreditInit /\ [][CreditNext]_vars


\* ------------------------------------------------------- the scenario store
\* SECURITY_SCENARIOS is static content: a non-empty list of scenarios, each
\* with baseline metrics and at least one step. Steps alternate between one
\* that offers choices and one that offers none; scenario i has 1 + i % MaxSteps
\* steps, so that the last scenario has one step or several.
StepChoices ==
  << [ id |-> "harden", label |-> "Harden", metricDeltas |-> [k \in {"controlAdoption"} |-> 70] ],
     [ id |-> "defer", label |-> "Defer",
       metricDeltas |-> [k \in {"controlAdoption", "incidentRate"} |->
                           IF k = "controlAdoption" THEN -50 ELSE 60] ],
     [ id |-> "observe", label |-> "Observe" ] >>

ScenarioStep(k) ==
  IF k % 2 = 1 THEN [id |-> k, choices |-> StepChoices] ELSE [id |-> k]

SecurityScenario(i) ==
  [ id |-> i,
    metrics |-> [k \in {"controlAdoption", "incidentRate"} |->
                   IF k = "controlAdoption" THEN 40 + 10 * (i % 2) ELSE 50],
    steps |-> [k \in 1..(1 + (i % MaxSteps)) |-> ScenarioStep(k)] ]

SECURITY_SCENARIOS(n) == [i \in 1..n |-> SecurityScenario(i - 1)]

\* The arguments the callers pass: indexes in and out of range, ids known and
\* unknown, choice ids offered, not offered and absent ("").
IndexChoices == -1..(MaxScenarios + 1)
IdChoices == 0..MaxScenarios
ChoiceIds == {"harden", "defer", "observe", "unknown", ""}

clampMetric(n) == IF n < 0 THEN 0 ELSE IF n > 100 THEN 100 ELSE n

applyMetricDeltas(base, deltas) ==
  [k \in DOMAIN base |->
     IF k \in DOMAIN deltas THEN clampMetric(base[k] + deltas[k]) ELSE base[k]]

\* Math.min(Math.max(index, 0), scenarios.length - 1)
SafeIndex(index, length) == Min(Max(index, 0), length - 1)

\* scenarios.findIndex((s) => s.id === id)
FindIndex(id) ==
  LET found == { i \in 1..Len(scenarios) : scenarios[i].id = id }
  IN IF found = {} THEN -1 ELSE (CHOOSE i \in found : \A j \in found : i <= j) - 1

AtLastStepLate(stepIndex, stepCount) == stepIndex >= stepCount
AtLastStep(stepIndex, stepCount) == stepIndex >= stepCount - 1

AtLastScenarioAlways(scenarioIndex, length) == TRUE
AtLastScenario(scenarioIndex, length) == scenarioIndex >= length - 1

\* What the scenario store leaves alone.
besidesScenario ==
  <<schedulerVars, engineVars, creditVars, perturbVars, samplerVars, iterationVars>>

setScenarioByIndex(index) ==
  LET safeIndex == SafeIndex(index, Len(scenarios))
      scenario == scenarios[safeIndex + 1]
  IN /\ currentScenarioIndex' = safeIndex
     /\ currentStepIndex' = 0
     /\ activeMetrics' = scenario.metrics
     /\ showResults' = FALSE
     /\ lastChoiceImpact' = NoImpact
     /\ simulationComplete' = FALSE
     /\ storeAction' = [name |-> "setScenarioByIndex", arg |-> index]
     /\ UNCHANGED scenarios
     /\ UNCHANGED besidesScenario

setScenarioById(id) ==
  LET idx == FindIndex(id)
  IN /\ IF idx = -1
        THEN UNCHANGED <<currentScenarioIndex, currentStepIndex, activeMetrics, showResults,
                         lastChoiceImpact, simulationComplete>>
        ELSE /\ currentScenarioIndex' = idx
             /\ currentStepIndex' = 0
             /\ activeMetrics' = scenarios[idx + 1].metrics
             /\ showResults' = FALSE
             /\ lastChoiceImpact' = NoImpact
             /\ simulationComplete' = FALSE
     /\ storeAction' = [name |-> "setScenarioById", arg |-> id]
     /\ UNCHANGED scenarios
     /\ UNCHANGED besidesScenario

choose(choiceId) ==
  LET scenario == scenarios[currentScenarioIndex + 1]
      step == scenario.steps[currentStepIndex + 1]
      found == IF "choices" \in DOMAIN step /\ choiceId # ""
               THEN { i \in 1..Len(step.choices) : step.choices[i].id = choiceId }
               ELSE {}
      applies == found # {} /\
                 "metricDeltas" \in DOMAIN step.choices[CHOOSE i \in found : \A j \in found : i <= j]
      choice == step.choices[CHOOSE i \in found : \A j \in found : i <= j]
  IN /\ activeMetrics' = IF applies THEN applyMetricDeltas(activeMetrics, choice.metricDeltas)
                         ELSE activeMetrics
     /\ showResults' = TRUE
     /\ lastChoiceImpact' = IF applies
                            THEN [label |-> choice.label, metricDeltas |-> choice.metricDeltas]
                            ELSE NoImpact
     /\ storeAction' = [name |-> "choose", arg |-> choiceId]
     /\ UNCHANGED <<scenarios, currentScenarioIndex, currentStepIndex, simulationComplete>>
     /\ UNCHANGED besidesScenario

continueAfterResults ==
  LET scenario == scenarios[currentScenarioIndex + 1]
      atLastStep == AtLastStep(currentStepIndex, Len(scenario.steps))
      atLastScenario == AtLastScenario(currentScenarioIndex, Len(scenarios))
  IN /\ showResults' = FALSE
     /\ lastChoiceImpact' = NoImpact
     /\ simulationComplete' = IF atLastStep /\ atLastScenario THEN TRUE ELSE simulationComplete
     /\ currentStepIndex' = IF atLastStep THEN currentStepIndex ELSE currentStepIndex + 1
     /\ storeAction' = [name |-> "continueAfterResults", arg |-> 0]
     /\ UNCHANGED <<scenarios, currentScenarioIndex, activeMetrics>>
     /\ UNCHANGED besidesScenario

moveToNextScenario ==
  LET nextScenarioIndex == currentScenarioIndex + 1
  IN /\ IF nextScenarioIndex >= Len(scenarios)
        THEN UNCHANGED <<currentScenarioIndex, currentStepIndex, activeMetrics>>
        ELSE /\ currentScenarioIndex' = nextScenarioIndex
             /\ currentStepIndex' = 0
             /\ activeMetrics' = scenarios[nextScenarioIndex + 1].metrics
     /\ showResults' = FALSE
     /\ lastChoiceImpact' = NoImpact
     /\ storeAction' = [name |-> "moveToNextScenario", arg |-> 0]
     /\ UNCHANGED <<scenarios, simulationComplete>>
     /\ UNCHANGED besidesScenario

resetSimulationKeepsMetrics ==
  /\ currentScenarioIndex' = 0
  /\ currentStepIndex' = 0
  /\ showResults' = FALSE
  /\ lastChoiceImpact' = NoImpact
  /\ simulationComplete' = FALSE
  /\ storeAction' = [name |-> "resetSimulation", arg |-> 0]
  /\ UNCHANGED <<scenarios, activeMetrics>>
  /\ UNCHANGED besidesScenario

resetSimulation ==
  LET first == scenarios[1]
  IN /\ currentScenarioIndex' = 0
     /\ currentStepIndex' = 0
     /\ activeMetrics' = first.metrics
     /\ showResults' = FALSE
     /\ lastChoiceImpact' = NoImpact
     /\ simulationComplete' = FALSE
     /\ storeAction' = [name |-> "resetSimulation", arg |-> 0]
     /\ UNCHANGED scenarios
     /\ UNCHANGED besidesScenario

restartCurrent ==
  LET scenario == scenarios[currentScenarioIndex + 1]
  IN /\ currentStepIndex' = 0
     /\ activeMetrics' = scenario.metrics
     /\ showResults' = FALSE
     /\ lastChoiceImpact' = NoImpact
     /\ simulationComplete' = FALSE
     /\ storeAction' = [name |-> "restartCurrent", arg |-> 0]
     /\ UNCHANGED <<scenarios, currentScenarioIndex>>
     /\ UNCHANGED besidesScenario

\* create(...): the state the store is constructed with.
ScenarioStoreCreated(n) ==
  /\ scenarios = SECURITY_SCENARIOS(n)
  /\ currentScenarioIndex = 0
  /\ currentStepIndex = 0
  /\ activeMetrics = SECURITY_SCENARIOS(n)[1].metrics
  /\ showResults = FALSE
  /\ lastChoiceImpact = NoImpact
  /\ simulationComplete = FALSE
  /\ storeAction = [name |-> "create", arg |-> 0]

ScenarioInit ==
  /\ SchedulerInit
  /\ EngineIdle
  /\ CreditIdle
  /\ PerturbIdle
  /\ SamplerIdle
  /\ IterationIdle
  /\ \E n \in 1..MaxScenarios : ScenarioStoreCreated(n)

ScenarioNext ==
  \/ \E index \in IndexChoices : setScenarioByIndex(index)
  \/ \E id \in IdChoices : setScenarioById(id)
  \/ \E choiceId \in ChoiceIds : choose(choiceId)
  \/ continueAfterResults
  \/ moveToNextScenario
  \/ resetSimulation
  \/ restartCurrent

ScenarioSpec == ScenarioInit /\ [][ScenarioNext]_vars


\* ------------------------------------------- the perturbation of a candidate
\* The factor 1.1 as a quotient; the values perturbed are multiples of 10.
Factor == [n |-> 11, d |-> 10]
Times(x, factor) == (x * factor.n) \div factor.d

\* { ...v, min: v.min, max: v.max, mode: v.mode }: a new object with the
\* content of v; a bound that is undefined stays undefined (absent).
CloneValue(v) == [k \in { f \in {"min", "max", "mode"} : f \in DOMAIN v } |-> v[k]]

cloneInputs(inputObject) == [k \in DOMAIN inputObject |-> CloneValue(inputObject[k])]

\* const next = cloneInputs(inputs): the object next names, a new object or
\* (were the clone to return its argument) the inputs object itself.
PerturbTargetInputs == "inputs"
PerturbTarget == "next"

\* The objects when perturb returns: its argument and the local next.
perturbHeap(inputObject, varId, factor) ==
  LET heap == [ inputs |-> inputObject, next |-> cloneInputs(inputObject) ]
      next == heap[PerturbTarget]
  IN IF varId \in DOMAIN next
     THEN [heap EXCEPT ![PerturbTarget] =
             Assign(@, varId, [k \in DOMAIN next[varId] |-> Times(next[varId][k], factor)])]
     ELSE heap

perturb(inputObject, varId, factor) == perturbHeap(inputObject, varId, factor)[PerturbTarget]

\* Math.min(2000, iterationCount)
TrialBound(iterationCount) == Min(2000, iterationCount)
\* i < Math.min(2000, iterationCount)
TrialLoopContinues(i, bound) == i < bound

\* The effective inputs the worker is sent: every candidate present, some
\* candidates absent, or none; values with and without bounds.
PerturbValues == { [mode |-> 20], [min |-> 10, mode |-> 20, max |-> 30] }
PerturbKeySets ==
  { {}, {"TEF", "Cost_IR"}, {"P_IFSReachable", "P_WriteAccess", "T_DetectDays", "P_Secondary"} }
PerturbInputs == UNION { [keys -> PerturbValues] : keys \in PerturbKeySets }
\* The iteration counts with which the sweep runs (iterationCount >= 1000).
SweepCounts == {1000, 2000, 5001}

\* The next candidate: const perturbed = perturb(effective, varId, 1.1).
PerturbCall ==
  /\ perturbation.stage \in {"start", "simulated"}
  /\ perturbation.candidate < Len(SENSITIVITY_VARS)
  /\ LET varId == SENSITIVITY_VARS[perturbation.candidate + 1]
         heap == perturbHeap(perturbation.effective, varId, Factor)
     IN perturbation' = [perturbation EXCEPT
          !.candidate = @ + 1,
          !.effective = heap.inputs,
          !.perturbed = heap[PerturbTarget],
          !.trials = 0,
          !.batches = 0,
          !.stage = "perturbed"]
  /\ UNCHANGED <<schedulerVars, engineVars, creditVars, scenarioVars, samplerVars, iterationVars>>

\* The lengths of the next batch of trials: one, a thousand, or all that
\* remain; the last batch within MaxBatches takes all that remain.
TrialBatchSizes ==
  LET rest == TrialBound(perturbation.iterationCount) - perturbation.trials
  IN IF perturbation.batches < MaxBatches - 1
     THEN { k \in {1, 1000, rest} : k >= 1 /\ k <= rest }
     ELSE { Max(1, rest) }

\* k turns of the loop that re-simulates the candidate.
Resimulate(k) ==
  /\ perturbation.stage = "perturbed"
  /\ TrialLoopContinues(perturbation.trials, TrialBound(perturbation.iterationCount))
  /\ perturbation' = [perturbation EXCEPT !.trials = @ + k, !.batches = @ + 1]
  /\ UNCHANGED <<schedulerVars, engineVars, creditVars, scenarioVars, samplerVars, iterationVars>>

\* The loop ends; the candidate's P90 is taken from the trials made.
ResimulationEnds ==
  /\ perturbation.stage = "perturbed"
  /\ ~TrialLoopContinues(perturbation.trials, TrialBound(perturbation.iterationCount))
  /\ perturbation' = [perturbation EXCEPT !.stage = "simulated"]
  /\ UNCHANGED <<schedulerVars, engineVars, creditVars, scenarioVars, samplerVars, iterationVars>>

PerturbInit ==
  /\ SchedulerInit
  /\ EngineIdle
  /\ CreditIdle
  /\ ScenarioIdle
  /\ SamplerIdle
  /\ IterationIdle
  /\ \E effective \in PerturbInputs, iterationCount \in SweepCounts :
       perturbation = [ original |-> effective, effective |-> effective,
                        iterationCount |-> iterationCount, candidate |-> 0,
                        perturbed |-> <<>>, trials |-> 0, batches |-> 0, stage |-> "start" ]

PerturbNext ==
  \/ PerturbCall
  \/ \E k \in TrialBatchSizes : Resimulate(k)
  \/ ResimulationEnds

PerturbSpec == PerturbInit /\ [][PerturbNext]_vars


\* ------------------------------------------------- sampleTriangular alone
\* Math.random() returned u = k / UGrid. A result base + sign * sqrt(rad / UGrid)
\* is kept as [base, sign, rad]; a negative rad is the NaN of Math.sqrt.
Surd(base, sign, rad) == [base |-> base, sign |-> sign, rad |-> rad]
SurdIsNaN(s) == s.rad < 0
SurdIsZero(s) == s.sign * s.base <= 0 /\ s.rad = s.base * s.base * UGrid

\* x || fallback on a number: the fallback when x is 0 or NaN.
QuotientKeptAsIs(q) == q
QuotientOrZero(q) == IF q.n = 0 THEN Rat(0, 1) ELSE q
SurdOr(s, fallback) == IF SurdIsNaN(s) \/ SurdIsZero(s) THEN Surd(fallback, 1, 0) ELSE s

\* u <= c
UAtMost(k, c) == k * c.d <= c.n * UGrid

\* sampleTriangular(min, mode, max) when Math.random() returns k / UGrid.
TriangularC(min, mode, max) == QuotientOrZero(RatDiv(Rat(mode - min, 1), Rat(max - min, 1)))

sampleTriangular(min, mode, max, k) ==
  IF UAtMost(k, TriangularC(min, mode, max))
  THEN SurdOr(Surd(min, 1, k * (max - min) * (mode - min)), min)
  ELSE SurdOr(Surd(max, -1, (UGrid - k) * (max - min) * (max - mode)), max)

\* The valid descriptors: min <= mode <= max.
Triangles ==
  { t \in (0..MaxSample) \X (0..MaxSample) \X (0..MaxSample) : t[1] <= t[2] /\ t[2] <= t[3] }

TriangularCall ==
  /\ triangular.stage = "called"
  /\ triangular' = [triangular EXCEPT
       !.quotient = RatDiv(Rat(triangular.mode - triangular.min, 1),
                           Rat(triangular.max - triangular.min, 1)),
       !.c = TriangularC(triangular.min, triangular.mode, triangular.max),
       !.value = sampleTriangular(triangular.min, triangular.mode, triangular.max,
                                  triangular.u),
       !.stage = "returned"]
  /\ UNCHANGED <<schedulerVars, engineVars, creditVars, scenarioVars, perturbVars, iterationVars>>

SamplerInit ==
  /\ SchedulerInit
  /\ EngineIdle
  /\ CreditIdle
  /\ ScenarioIdle
  /\ PerturbIdle
  /\ IterationIdle
  /\ \E t \in Triangles, k \in 0..(UGrid - 1) :
       triangular = [ min |-> t[1], mode |-> t[2], max |-> t[3], u |-> k,
                      quotient |-> Rat(0, 1), c |-> Rat(0, 1), value |-> Surd(0, 1, 0),
                      stage |-> "called" ]

SamplerNext == TriangularCall

SamplerSpec == SamplerInit /\ [][SamplerNext]_vars


\* ---------------------------------------------------- one iteration alone
\* The variables one iteration samples: the chain that gives lambda, and the
\* losses of an event.
ChainKeys == {"TEF", "P_InitialAccess", "P_IFSReachable", "P_WriteAccess"}
EventKeys ==
  {"Cost_IR", "Cost_Recovery", "T_DetectDays", "T_RecoveryDays", "Cost_DowntimePerDay",
   "P_Secondary"}

\* sampleTriangular returns a number of [min, max]; the model takes its ends,
\* the same end for the variables of one family within one step.
Levels == {"min", "max"}
FamilyOf(key) ==
  IF key \in TIME_VARS THEN "time" ELSE IF key \in COST_VARS THEN "cost" ELSE "probability"

\* sample(key): 0 for an absent key; the bounds default to mode * 0.5 and
\* mode * 1.5. Probabilities are in percent.
sampleAbsentAsOne(effective, key, level) ==
  IF key \notin DOMAIN effective THEN 1
  ELSE LET v == effective[key]
           min == IF "min" \in DOMAIN v THEN v.min ELSE (v.mode * 5) \div 10
           max == IF "max" \in DOMAIN v THEN v.max ELSE (v.mode * 15) \div 10
       IN IF level = "min" THEN min ELSE max
sample(effective, key, level) ==
  IF key \notin DOMAIN effective THEN 0
  ELSE LET v == effective[key]
           min == IF "min" \in DOMAIN v THEN v.min ELSE (v.mode * 5) \div 10
           max == IF "max" \in DOMAIN v THEN v.max ELSE (v.mode * 15) \div 10
       IN IF level = "min" THEN min ELSE max

\* samplePoisson(lambda): the count returned and the calls of Math.random()
\* made; the loop draws once more than the count it returns. Without the test
\* of lambda the loop draws once and returns 0 (L = exp(0) = 1).
samplePoissonUnguarded(lambda) ==
  IF lambda <= 0 THEN { [k |-> 0, draws |-> 1] }
  ELSE { [k |-> n, draws |-> n + 1] : n \in 0..MaxEvents }
samplePoisson(lambda) ==
  IF lambda <= 0 THEN { [k |-> 0, draws |-> 0] }
  ELSE { [k |-> n, draws |-> n + 1] : n \in 0..MaxEvents }

\* sampleBernoulli(p): Math.random() < p, p in percent.
sampleBernoulli(prob) == IF prob <= 0 THEN {0} ELSE IF prob >= 100 THEN {1} ELSE {0, 1}

\* The effective inputs: complete, with one variable of the chain absent, with
\* variables of an event absent, and empty; values with and without bounds.
IterationKeySets ==
  { ChainKeys \cup EventKeys, EventKeys, {} }
  \cup { (ChainKeys \cup EventKeys) \ {k} : k \in ChainKeys }
  \cup { ChainKeys \cup (EventKeys \ {"Cost_IR", "P_Secondary"}) }
IterationValues == { [mode |-> 20], [min |-> 10, mode |-> 20, max |-> 40] }
IterationInputs ==
  { [k \in keys |-> v] : keys \in IterationKeySets, v \in IterationValues }
IterationPolicies == { <<DEFAULT_DEDUCTIBLE, DEFAULT_COVERAGE>>, <<0, 1000000>> }

\* const TEF = sample("TEF") ... const lambda = TEF * P_IA * P_IFS * P_Write
SampleChain(levels) ==
  /\ iteration.stage = "called"
  /\ LET drawn == [k \in ChainKeys |-> sample(iteration.effective, k, levels[FamilyOf(k)])]
     IN iteration' = [iteration EXCEPT
          !.samples = [k \in ChainKeys \cup EventKeys |->
                         IF k \in ChainKeys THEN drawn[k] ELSE @[k]],
          !.lambda = drawn["TEF"] * drawn["P_InitialAccess"] * drawn["P_IFSReachable"]
                       * drawn["P_WriteAccess"],
          !.stage = "chain"]
  /\ UNCHANGED <<schedulerVars, engineVars, creditVars, scenarioVars, perturbVars, samplerVars>>

\* const eventCount = samplePoisson(lambda); let gross = 0
PoissonDraw(outcome) ==
  /\ iteration.stage = "chain"
  /\ outcome \in samplePoisson(iteration.lambda)
  /\ iteration' = [iteration EXCEPT
       !.eventCount = outcome.k, !.draws = outcome.draws, !.gross = 0, !.stage = "events"]
  /\ UNCHANGED <<schedulerVars, engineVars, creditVars, scenarioVars, perturbVars, samplerVars>>

\* One turn of the loop over the events.
SampleEvent(levels, occurs) ==
  /\ iteration.stage = "events"
  /\ iteration.events < iteration.eventCount
  /\ LET drawn == [k \in EventKeys |-> sample(iteration.effective, k, levels[FamilyOf(k)])]
         downtime == (drawn["T_DetectDays"] + drawn["T_RecoveryDays"])
                       * drawn["Cost_DowntimePerDay"]
         primary == drawn["Cost_IR"] + drawn["Cost_Recovery"] + downtime
         secondary == occurs * (COST_LEGAL + COST_NOTIFICATION + COST_CHURN)
     IN /\ occurs \in sampleBernoulli(drawn["P_Secondary"])
        /\ iteration' = [iteration EXCEPT
             !.samples = [k \in ChainKeys \cup EventKeys |->
                            IF k \in EventKeys THEN drawn[k] ELSE @[k]],
             !.gross = @ + primary + secondary,
             !.events = @ + 1]
  /\ UNCHANGED <<schedulerVars, engineVars, creditVars, scenarioVars, perturbVars, samplerVars>>

\* const net = netLoss(gross, deductible, coverageLimit); return { gross, net }
IterationReturns ==
  /\ iteration.stage = "events"
  /\ ~(iteration.events < iteration.eventCount)
  /\ iteration' = [iteration EXCEPT
       !.net = netLoss(iteration.gross, iteration.deductible, iteration.coverageLimit),
       !.stage = "returned"]
  /\ UNCHANGED <<schedulerVars, engineVars, creditVars, scenarioVars, perturbVars, samplerVars>>

IterationInit ==
  /\ SchedulerInit
  /\ EngineIdle
  /\ CreditIdle
  /\ ScenarioIdle
  /\ PerturbIdle
  /\ SamplerIdle
  /\ \E effective \in IterationInputs, pol \in IterationPolicies :
       iteration = [ effective |-> effective, deductible |-> pol[1], coverageLimit |-> pol[2],
                     samples |-> [k \in ChainKeys \cup EventKeys |-> -1],
                     lambda |-> -1, draws |-> 0, eventCount |-> -1, events |-> 0,
                     gross |-> -1, net |-> -1, stage |-> "called" ]

IterationNext ==
  \/ \E levels \in [Families -> Levels] : SampleChain(levels)
  \/ \E outcome \in samplePoisson(iteration.lambda) : PoissonDraw(outcome)
  \/ \E levels \in [Families -> Levels], occurs \in {0, 1} : SampleEvent(levels, occurs)
  \/ IterationReturns

IterationSpec == IterationInit /\ [][IterationNext]_vars


\* ==================================================================== claims

InFlightWorkers == { w \in 1..Len(workers) : InFlight(workers[w]) }

\* C1: every result written to the store belongs to the most recently
\* requested run; a result of an older run never replaces a newer one's.
C1_ResultsBelongToLatestRun ==
  [][(resultRun' # resultRun \/ simulationResults' # simulationResults)
       => resultRun' = lastReq']_vars

\* C2: at every point at most one worker holds a request that has neither
\* been answered nor cancelled.
C2_AtMostOneInFlight == Cardinality(InFlightWorkers) <= 1

\* C2 witness: a second worker run was started while the first was in flight;
\* the first was terminated unanswered and only the second is in flight.
C2_Witness ==
  /\ Len(workers) >= 2
  /\ workers[1].status = "inflight" /\ workers[1].terminated
  /\ InFlight(workers[2])

\* C3: when a worker signals an error for a run of N iterations, the handler
\* stores the synchronous result for the same effective inputs, deductible and
\* coverage limit at min(N, 5000) iterations and sets isRunning to false.
C3_ErrorFallsBackToSync ==
  [][\A w \in InFlightWorkers :
       (w <= Len(workers') /\ workers'[w].status = "errored") =>
         LET d == workers[w].data
         IN /\ simulationResults'.effective = d.effective
            /\ simulationResults'.deductible = d.deductible
            /\ simulationResults'.coverageLimit = d.coverageLimit
            /\ simulationResults'.iterationCount =
                 (IF d.iterationCount <= 5000 THEN d.iterationCount ELSE 5000)
            /\ simulationResults'.maxSamples = 1000
            /\ ~simulationResults'.sweep
            /\ resultRun' = workers[w].req
            /\ isRunning' = FALSE]_vars

\* C3 witness: the worker of a 10000-iteration run has failed and the store
\* holds the 5000-iteration fallback result of that run.
C3_Witness ==
  \E w \in 1..Len(workers) :
    /\ workers[w].status = "errored"
    /\ resultRun = workers[w].req
    /\ lastReq = workers[w].req
    /\ lastCall.iterationCount = 10000
    /\ simulationResults.iterationCount = 5000
    /\ ~isRunning

\* The latest request is held by a worker that has not answered.
LatestInFlight == \E w \in InFlightWorkers : workers[w].req = lastReq
\* The latest request's result is in the store and isRunning is false.
LatestServed == resultRun = lastReq /\ ~isRunning

\* C4: every run that is not superseded by a later request eventually has its
\* result in the store with isRunning false, given that a dispatched worker
\* eventually answers or fails: a request either is served when runSimulation
\* returns or is held by an in-flight worker, and whenever the latest request
\* is held by a worker, the then latest request is eventually served.
C4_EveryRunCompletes ==
  /\ [][lastReq' # lastReq => (LatestServed' \/ LatestInFlight')]_vars
  /\ LatestInFlight ~> LatestServed

\* C4 witness: the latest run went to a worker, the worker has finished, and
\* the run's result is stored with isRunning false.
C4_Witness ==
  \E w \in 1..Len(workers) :
    /\ workers[w].req = lastReq
    /\ workers[w].status \in {"done", "errored"}
    /\ resultRun = lastReq
    /\ ~isRunning

\* C5: a call with N <= 3000 creates no worker and has stored its result, with
\* isRunning false, when it returns; a call with N > 3000 creates exactly one
\* worker holding one request for N iterations and stores nothing.
C5_SyncBelowThreshold ==
  [][lastReq' # lastReq =>
       LET n == lastCall'.iterationCount
       IN IF n <= 3000
          THEN /\ workers' = workers
               /\ workerRef' = workerRef
               /\ resultRun' = lastReq'
               /\ simulationResults'.iterationCount = n
               /\ isRunning' = FALSE
          ELSE /\ Len(workers') = Len(workers) + 1
               /\ InFlight(workers'[Len(workers')])
               /\ workers'[Len(workers')].req = lastReq'
               /\ workers'[Len(workers')].data.iterationCount = n
               /\ workerRef' = Len(workers')
               /\ simulationResults' = simulationResults
               /\ resultRun' = resultRun]_vars

\* C5 witness: a call with exactly 3000 iterations was made while a worker was
\* in flight; its result is stored and the worker is still the only one.
C5_Witness ==
  /\ lastCall.iterationCount = 3000
  /\ resultRun = lastReq
  /\ ~isRunning
  /\ InFlightWorkers # {}

\* The requests the worker's handler is tried on, apart from the scheduler's.
SampleRequests ==
  { [ effective |-> <<>>, deductible |-> 0, coverageLimit |-> 0,
      iterationCount |-> n, runSensitivity |-> s ] :
      n \in {1, 999, 1000, 4000}, s \in BOOLEAN }

\* C6: the posted request asks for the sweep exactly when the caller passed
\* runSensitivity or N >= 10000; the worker runs the sweep exactly when the
\* request asks for it and N >= 1000; a synchronous run never runs it.
C6_SweepGating ==
  [][/\ lastReq' # lastReq =>
          LET n == lastCall'.iterationCount
          IN IF n <= 3000
             THEN ~simulationResults'.sweep
             ELSE workers'[Len(workers')].data.runSensitivity
                    = (lastCall'.runSensitivity \/ n >= 10000)
     /\ \A w \in InFlightWorkers :
          /\ (w <= Len(workers') /\ workers'[w].status = "done") =>
               simulationResults'.sweep =
                 (workers[w].data.runSensitivity /\ workers[w].data.iterationCount >= 1000)
          /\ (w <= Len(workers') /\ workers'[w].status = "errored") =>
               ~simulationResults'.sweep
     /\ \A data \in SampleRequests : \A r \in WorkerResults(data) :
          r.sweep = (data.runSensitivity /\ data.iterationCount >= 1000)]_vars

\* C6 witness: a 10000-iteration run called with runSensitivity = false has
\* delivered a result for which the sweep ran.
C6_Witness ==
  /\ lastCall.iterationCount = 10000
  /\ ~lastCall.runSensitivity
  /\ resultRun = lastReq
  /\ simulationResults.sweep

\* C7: a call with N >= 5000 resolves its effective inputs from the raw inputs
\* and controls of the store, also while a debounce timer is pending; a call
\* below 5000 resolves them from the debounced values.
C7_RefineUsesRawInputs ==
  [][lastReq' # lastReq =>
       LET n == lastCall'.iterationCount
           resolved == IF n >= 5000
                       THEN getEffectiveInputs(inputs'.val, controls'.val, controlDefs)
                       ELSE getEffectiveInputs(debouncedInputs'.val, debouncedControls'.val,
                                               controlDefs)
       IN /\ lastCall'.eff = resolved
          /\ IF n <= 3000
             THEN simulationResults'.effective = resolved
             ELSE workers'[Len(workers')].data.effective = resolved]_vars

\* C7 witness: a refine run was made while the inputs timer was pending, and
\* it computes from the raw inputs, which differ from the debounced ones.
C7_Witness ==
  /\ lastCall.iterationCount >= 5000
  /\ inputTimers # {}
  /\ lastCall.eff = getEffectiveInputs(inputs.val, controls.val, controlDefs)
  /\ lastCall.eff # getEffectiveInputs(debouncedInputs.val, debouncedControls.val, controlDefs)

\* C8: each debounced value has at most one pending timer, which carries the
\* current raw value; when none is pending the debounced value is the raw
\* value; and every debounced update carries the raw value of that moment,
\* never an intermediate one.
C8_DebounceSingleSlot ==
  [][/\ Cardinality(inputTimers') <= 1
     /\ Cardinality(controlTimers') <= 1
     /\ \A t \in inputTimers' : t = inputs'
     /\ \A t \in controlTimers' : t = controls'
     /\ inputTimers' = {} => debouncedInputs' = inputs'
     /\ controlTimers' = {} => debouncedControls' = controls'
     /\ debouncedInputs' # debouncedInputs =>
          (debouncedInputs' = inputs /\ inputTimers' = {})
     /\ debouncedControls' # debouncedControls =>
          (debouncedControls' = controls /\ controlTimers' = {})]_vars

\* C8 witness: two input changes arrived before the timer fired; one timer is
\* pending, it carries the second value, and no debounced update has happened.
C8_Witness ==
  /\ inputs.ref = 2
  /\ debouncedInputs.ref = 0
  /\ inputTimers = {inputs}
  /\ lastReq = 1

\* C9: gross - coverageLimit <= net <= gross for non-negative arguments.
C9_NetLossBounds ==
  /\ call.grossLoss - call.coverageLimit <= call.net
  /\ call.net <= call.grossLoss

\* C9 witness: after a smaller one, a gross loss above deductible + coverageLimit under a policy
\* with a positive deductible and limit, where the limit caps the recovery.
C9_Witness ==
  /\ prevCall.grossLoss < call.grossLoss
  /\ call.deductible > 0 /\ call.coverageLimit > 0
  /\ call.grossLoss > call.deductible + call.coverageLimit
  /\ call.net = call.grossLoss - call.coverageLimit

\* C10: under one policy, a larger gross loss never gives a smaller net loss.
C10_NetLossMonotonic ==
  (/\ prevCall.deductible = call.deductible
   /\ prevCall.coverageLimit = call.coverageLimit
   /\ prevCall.grossLoss <= call.grossLoss)
    => prevCall.net <= call.net

\* C10 witness: two evaluations under one policy, the first at the deductible
\* and the second above deductible + coverageLimit.
C10_Witness ==
  /\ call.deductible > 0 /\ call.coverageLimit > 0
  /\ prevCall.deductible = call.deductible
  /\ prevCall.coverageLimit = call.coverageLimit
  /\ prevCall.grossLoss = call.deductible
  /\ call.grossLoss > call.deductible + call.coverageLimit

\* C11: for non-negative arguments netLoss equals
\* min(gross, deductible) + max(0, gross - deductible - coverageLimit): a gross
\* at or below the deductible passes through, the layer between deductible and
\* deductible + coverageLimit is removed, and the part above it is kept.
C11_NetLossFormula ==
  /\ call.net = Min(call.grossLoss, call.deductible)
                 + Max(0, call.grossLoss - call.deductible - call.coverageLimit)
  /\ call.grossLoss <= call.deductible => call.net = call.grossLoss
  /\ (call.grossLoss > call.deductible
       /\ call.grossLoss <= call.deductible + call.coverageLimit)
        => call.net = call.deductible
  /\ call.grossLoss > call.deductible + call.coverageLimit
        => call.net = call.grossLoss - call.coverageLimit

\* C11 witness: after an evaluation above the insured layer, a gross loss
\* strictly inside the layer, which leaves exactly the deductible.
C11_Witness ==
  /\ prevCall.grossLoss > prevCall.deductible + prevCall.coverageLimit
  /\ call.deductible > 0
  /\ call.grossLoss > call.deductible
  /\ call.grossLoss < call.deductible + call.coverageLimit
  /\ call.net = call.deductible

\* C14: percentile of an empty array is 0 for every p; for a non-empty
\* ascending array and p in [0,1] it is the linear interpolation between
\* sorted[floor(i)] and sorted[ceil(i)], i = p*(n-1), which is the middle
\* element for p = 0.5 on an odd length and lies between sorted[0] and
\* sorted[n-1].
C14_PercentileInterpolates ==
  LET n == Length(pcall.sorted)
      i == pcall.p * (n - 1)
      floor == CHOOSE k \in 0..n : 100 * k <= i /\ i < 100 * (k + 1)
      ceil == CHOOSE k \in 0..n : 100 * (k - 1) < i /\ i <= 100 * k
  IN IF n = 0 THEN pcall.value = 0
     ELSE /\ pcall.value = 100 * At(pcall.sorted, floor)
                           + (At(pcall.sorted, ceil) - At(pcall.sorted, floor)) * (i - 100 * floor)
          /\ (pcall.p = 50 /\ n % 2 = 1) => pcall.value = 100 * At(pcall.sorted, (n - 1) \div 2)
          /\ 100 * At(pcall.sorted, 0) <= pcall.value
          /\ pcall.value <= 100 * At(pcall.sorted, n - 1)

\* C14 witness: the 0.9 percentile of a four-element array falls between two
\* different elements and is strictly between them.
C14_Witness ==
  /\ Length(pcall.sorted) = 4
  /\ pcall.p = 90
  /\ At(pcall.sorted, 2) < At(pcall.sorted, 3)
  /\ 100 * At(pcall.sorted, 2) < pcall.value
  /\ pcall.value < 100 * At(pcall.sorted, 3)

\* The driver has returned or posted its results.
DriverDone == driverResults # NoResult

\* C12: every SimulationResults of the driver, on either path, has
\* grossP90 >= netP90.
C12_GrossP90AtLeastNetP90 ==
  DriverDone => driverResults.grossP90 >= driverResults.netP90

\* C12 witness: a run of more than one iteration whose insurance lowered the
\* 90th percentile, so that grossP90 is strictly above netP90.
C12_Witness ==
  /\ DriverDone
  /\ request.iterationCount > 1
  /\ request.coverageLimit > 0
  /\ driverResults.grossP90 > driverResults.netP90
  /\ driverResults.netP90 > 0

CountUpTo(a, v) == Length(SelectSeq(a, LAMBDA r : r.v <= v))

\* C15: lossSamples is the prefix of the ascending net-loss array of length
\* min(cap, iterationCount), cap = 1000 on the synchronous path and 5000 in
\* the worker; it is never longer than the cap and is in ascending order.
C15_LossSamplesPrefix ==
  DriverDone =>
    LET cap == IF request.path = "sync" THEN 1000 ELSE 5000
        len == IF request.iterationCount <= cap THEN request.iterationCount ELSE cap
        samples == driverResults.lossSamples
    IN /\ Length(samples) = len
       /\ Length(samples) <= cap
       /\ \A j \in 1..(Len(samples) - 1) : samples[j].v <= samples[j + 1].v
       /\ \A v \in 0..MaxGross :
            Count(samples, v) =
              Min(len, CountUpTo(nets, v)) - Min(len, CountUpTo(nets, v - 1))

\* C15 witness: a synchronous run of 1001 iterations with two different net
\* losses; lossSamples has 1000 elements and lacks one of the largest.
C15_Witness ==
  /\ DriverDone
  /\ request.path = "sync"
  /\ request.iterationCount = 1001
  /\ Len(nets) >= 2
  /\ Length(driverResults.lossSamples) = 1000
  /\ Count(driverResults.lossSamples, nets[Len(nets)].v) = Count(nets, nets[Len(nets)].v) - 1

\* C16: when the sweep runs, topDriver is the candidate with the largest
\* strictly positive increase of the perturbed net P90 over the baseline, the
\* first one in the order of SENSITIVITY_VARS among equals, and the first
\* candidate, P_IFSReachable, when no candidate has a positive increase.
C16_TopDriverIsLargestIncrease ==
  (sweep.perturbedP90 # <<>> /\ sweep.topDriver # "undefined") =>
    LET delta(j) == sweep.perturbedP90[j] - sweep.baselineP90
        cands == 1..Len(SENSITIVITY_VARS)
        best == CHOOSE j \in cands :
                  /\ \A k \in cands : delta(k) <= delta(j)
                  /\ \A k \in cands : delta(k) = delta(j) => j <= k
    IN /\ delta(best) > 0 => sweep.topDriver = SENSITIVITY_VARS[best]
       /\ delta(best) <= 0 => sweep.topDriver = "P_IFSReachable"

\* C16 witness: the second and the fourth candidate share the largest positive
\* increase, the first has none, and topDriver is the second, P_WriteAccess.
C16_Witness ==
  /\ Len(sweep.perturbedP90) = Len(SENSITIVITY_VARS)
  /\ sweep.perturbedP90[1] <= sweep.baselineP90
  /\ sweep.perturbedP90[2] > sweep.baselineP90
  /\ sweep.perturbedP90[4] = sweep.perturbedP90[2]
  /\ sweep.perturbedP90[3] < sweep.perturbedP90[2]
  /\ sweep.perturbedP90[5] < sweep.perturbedP90[2]
  /\ sweep.topDriver = "P_WriteAccess"

\* C17: topDriver is never undefined in the results, and it is P_WriteAccess
\* whenever the sweep is not run: on the synchronous path, and in the worker
\* when the request does not ask for the sweep or has fewer than 1000 iterations.
C17_DefaultTopDriver ==
  DriverDone =>
    /\ driverResults.topDriver \in { SENSITIVITY_VARS[j] : j \in 1..Len(SENSITIVITY_VARS) }
    /\ (request.path = "sync" \/ ~request.runSensitivity \/ request.iterationCount < 1000)
         => driverResults.topDriver = "P_WriteAccess"

\* C17 witness: a worker request of 999 iterations that asks for the sweep has
\* posted results with the default label.
C17_Witness ==
  /\ DriverDone
  /\ request.path = "worker"
  /\ request.runSensitivity
  /\ request.iterationCount = 999
  /\ driverResults.topDriver = "P_WriteAccess"

\* C18: each of probabilityMultiplier, timeMultiplier and costMultiplier is
\* exactly 1 at maturity 0, strictly decreases with every step of maturity
\* from 0 to 5, and is never below 0.05 (values in thousandths).
C18_MultipliersDecrease ==
  /\ mult.maturity = 0 => mult.value = 1000
  /\ mult.value >= 50
  /\ (prevMult.family = mult.family /\ prevMult.maturity < mult.maturity)
       => mult.value < prevMult.value

\* C18 witness: the cost multiplier evaluated at maturity 4 and then at 5,
\* where it is lower and still above the floor.
C18_Witness ==
  /\ prevMult.family = "cost" /\ mult.family = "cost"
  /\ prevMult.maturity = 4 /\ mult.maturity = 5
  /\ mult.value < prevMult.value
  /\ mult.value = 300

\* The family multiplier the claim names for a variable, in thousandths.
FamilyFactor(id, maturity) ==
  IF id \in {"T_DetectDays", "T_RecoveryDays"} THEN 1000 - 160 * maturity
  ELSE IF id \in {"Cost_IR", "Cost_Recovery", "Cost_DowntimePerDay"} THEN 1000 - 140 * maturity
  ELSE 1000 - 170 * maturity

\* The factor of one control definition for a variable: its family multiplier
\* at the control's maturity (0 without an entry) when the definition lists the
\* variable, and 1 otherwise.
DefFactor(id, c, maturities) ==
  IF id \in ResolverDefs[c].variableIds
  THEN FamilyFactor(id, IF ResolverDefs[c].id \in DOMAIN maturities
                        THEN maturities[ResolverDefs[c].id] ELSE 0)
  ELSE 1000

\* C19: getEffectiveInputs returns, for exactly the keys of inputs, each
\* defined min, mode and max times the product of the family multipliers of
\* the controls that list the variable; a variable no control lists is
\* unchanged and an undefined min or max stays undefined.
C19_EffectiveInputsScaled ==
  /\ DOMAIN resolution.out = DOMAIN resolution.inputs
  /\ \A id \in DOMAIN resolution.inputs :
       LET val == resolution.inputs[id]
           factor == DefFactor(id, 1, resolution.controls) * DefFactor(id, 2, resolution.controls)
       IN /\ DOMAIN resolution.out[id] = DOMAIN val
          /\ \A k \in DOMAIN val : resolution.out[id][k] = val[k] * factor
          /\ (\A c \in 1..Len(ResolverDefs) : id \notin ResolverDefs[c].variableIds)
               => \A k \in DOMAIN val : resolution.out[id][k] = val[k] * 1000 * 1000

\* C19 witness: both controls are set above 0, TEF has only its mode and is
\* scaled by the product of the two probability multipliers, and P_Secondary,
\* which no control lists, is present.
C19_Witness ==
  /\ DOMAIN resolution.controls = {"patching", "monitoring"}
  /\ resolution.controls["patching"] = 2
  /\ resolution.controls["monitoring"] = 5
  /\ DOMAIN resolution.inputs["TEF"] = {"mode"}
  /\ resolution.out["TEF"]["mode"] = resolution.inputs["TEF"]["mode"] * 660 * 150
  /\ "P_Secondary" \in DOMAIN resolution.out
  /\ "T_DetectDays" \in DOMAIN resolution.out

\* C20: a call of getEffectiveInputs leaves the inputs, controls and
\* controlDefs objects it was given as they were, so the store keeps its
\* baseline inputs through every render, and a call with the arguments of the
\* call before it returns the same mapping.
C20_ResolverIsPure ==
  [][/\ baseline'.inputs = resolution'.inputs
     /\ baseline'.controls = resolution'.controls
     /\ baseline'.controlDefs = ResolverDefs
     /\ resolution'.controls # resolution.controls => baseline'.inputs = baseline.inputs
     /\ (resolution'.inputs = resolution.inputs /\ resolution'.controls = resolution.controls)
          => resolution'.out = resolution.out]_vars

\* C20 witness: a control above 0 scales TEF in the returned mapping while the
\* store still holds the inputs that were passed.
C20_Witness ==
  /\ "patching" \in DOMAIN resolution.controls
  /\ resolution.controls["patching"] = 5
  /\ resolution.out["TEF"]["mode"] < resolution.inputs["TEF"]["mode"] * 1000 * 1000
  /\ baseline.inputs = resolution.inputs
  /\ baseline.inputs # resolution.out

\* The workers whose run has finished, by a result message or by an error signal.
FinishedWorkers ==
  { w \in 1..Len(workers) : workers[w].status \in {"done", "errored"} }

\* The workers whose failure the scheduler has handled with the fallback.
FailedWorkers == { w \in 1..Len(workers) : workers[w].status = "errored" }

\* C23: every worker failure the scheduler handles leaves a record that is
\* observable internally, besides the fallback result it delivers: as many
\* records have been written as failures have been handled.
C23_FailureIsRecorded == Len(failureLog) = Cardinality(FailedWorkers)

\* C29: isRunning is true in every state in which a worker run is in flight,
\* and false in every state in which no computation is in flight.
C29_IsRunningTracksInFlight == isRunning <=> (InFlightWorkers # {})

\* C30: once a worker run has finished, by its result message or by its error
\* signal, the finished worker is terminated and workerRef does not hold it:
\* no worker that has finished stays alive.
C30_FinishedWorkerIsTerminated ==
  \A w \in FinishedWorkers : workers[w].terminated /\ workerRef # w

\* The debt service the claim states, as a fraction over 100 * term (term > 0)
\* or over 100 (term <= 0): numerator and denominator.
ClaimedDebtService(totalDebt, interestRate, amortTermYears) ==
  IF amortTermYears > 0
  THEN <<totalDebt * interestRate * amortTermYears + 100 * totalDebt, 100 * amortTermYears>>
  ELSE <<totalDebt * interestRate, 100>>

\* C24: debtService and dscr never divide by zero (their results are finite);
\* debtService is totalDebt * rate + totalDebt / term for a term above 0 and
\* totalDebt * rate for a term of 0 or less; dscr is cfads / debtService when
\* the debt service is positive and 0 otherwise.
C24_DscrNeverDividesByZero ==
  LET claimed == ClaimedDebtService(credit.totalDebt, credit.interestRate,
                                    credit.amortTermYears)
  IN /\ credit.stage \in {"debtService", "dscr"} =>
          /\ Finite(credit.ds)
          /\ credit.ds.n * claimed[2] = claimed[1] * credit.ds.d
     /\ credit.stage = "dscr" =>
          /\ Finite(credit.value)
          /\ IF claimed[1] > 0
             THEN credit.value.n * claimed[1] = credit.cfadsValue * claimed[2] * credit.value.d
             ELSE credit.value.n = 0

\* C24 witness: dscr was evaluated with an amortisation term of 0 and a
\* positive debt: the debt service is the interest alone (6 on a debt of 100
\* at 6%) and the ratio is 52 / 6.
C24_Witness ==
  /\ credit.stage = "dscr"
  /\ credit.amortTermYears = 0
  /\ credit.totalDebt = 100 /\ credit.interestRate = 6 /\ credit.cfadsValue = 52
  /\ credit.ds.n = 6 * credit.ds.d
  /\ credit.value.n * 6 = 52 * credit.value.d

\* The state the scenario store is constructed with.
InitialStoreState ==
  /\ currentScenarioIndex = 0
  /\ currentStepIndex = 0
  /\ activeMetrics = scenarios[1].metrics
  /\ showResults = FALSE
  /\ lastChoiceImpact = NoImpact
  /\ simulationComplete = FALSE

\* C25: whatever state the scenario store was in, the completed state
\* included, the state after resetSimulation is the initial state: scenario 0,
\* step 0, the first scenario's baseline metrics, no results shown, no choice
\* impact, not complete.
C25_ResetRestoresInitialState ==
  [][storeAction'.name = "resetSimulation" => InitialStoreState']_vars

\* C25 witness: with several scenarios, resetSimulation has just been called
\* and the store shows the first scenario's first step with its baseline.
C25_Witness ==
  /\ storeAction.name = "resetSimulation"
  /\ Len(scenarios) = MaxScenarios
  /\ InitialStoreState

\* The store is at the last step of the last scenario.
AtTheEnd ==
  /\ currentScenarioIndex = Len(scenarios) - 1
  /\ currentStepIndex = Len(scenarios[currentScenarioIndex + 1].steps) - 1

\* C27: simulationComplete holds only at the last step of the last scenario;
\* it is set only by continueAfterResults called there, and
\* setScenarioByIndex, restartCurrent, resetSimulation and a setScenarioById
\* that finds its scenario clear it.
C27_CompleteOnlyAtTheEnd ==
  [][/\ simulationComplete' => AtTheEnd'
     /\ (simulationComplete' /\ ~simulationComplete)
          => (storeAction'.name = "continueAfterResults" /\ AtTheEnd)
     /\ storeAction'.name \in {"setScenarioByIndex", "restartCurrent", "resetSimulation"}
          => ~simulationComplete'
     /\ (storeAction'.name = "setScenarioById" /\ FindIndex(storeAction'.arg) # -1)
          => ~simulationComplete']_vars

\* C27 witness: continueAfterResults at the second step of the second and
\* last scenario has set simulationComplete.
C27_Witness ==
  /\ simulationComplete
  /\ storeAction.name = "continueAfterResults"
  /\ Len(scenarios) = 2
  /\ currentScenarioIndex = 1
  /\ currentStepIndex = 1

\* C28: in every state of the scenario store currentScenarioIndex is an index
\* into scenarios and currentStepIndex an index into the current scenario's
\* steps, whatever actions were called with whatever arguments.
C28_IndexesAreValid ==
  /\ currentScenarioIndex \in 0..(Len(scenarios) - 1)
  /\ currentStepIndex \in 0..(Len(scenarios[currentScenarioIndex + 1].steps) - 1)

\* C28 witness: setScenarioByIndex was called with an index past the end and
\* the store is at the last scenario, step 0.
C28_Witness ==
  /\ storeAction.name = "setScenarioByIndex"
  /\ storeAction.arg = Len(scenarios) + 1
  /\ currentScenarioIndex = Len(scenarios) - 1
  /\ currentStepIndex = 0

\* The candidate perturbed last.
Candidate == SENSITIVITY_VARS[perturbation.candidate]

\* C26: what perturb(inputs, v, 1.1) returns has the keys of inputs and the
\* value of inputs on every key other than v; the inputs object is after the
\* call what it was before the first candidate (nothing accumulates); when v
\* is absent the result equals inputs; and each candidate is re-simulated
\* with exactly min(2000, iterationCount) trials.
C26_PerturbTouchesOneKey ==
  /\ perturbation.stage \in {"perturbed", "simulated"} =>
       /\ DOMAIN perturbation.perturbed = DOMAIN perturbation.original
       /\ \A k \in DOMAIN perturbation.original \ {Candidate} :
            perturbation.perturbed[k] = perturbation.original[k]
       /\ perturbation.effective = perturbation.original
       /\ Candidate \notin DOMAIN perturbation.original
            => perturbation.perturbed = perturbation.original
  /\ perturbation.stage = "simulated" =>
       perturbation.trials = IF perturbation.iterationCount < 2000
                             THEN perturbation.iterationCount ELSE 2000

\* C26 witness: the second candidate, P_WriteAccess, was perturbed after
\* P_IFSReachable and re-simulated with 2000 trials of a 5001-iteration run:
\* its mode went from 20 to 22 and P_IFSReachable is back at 20.
C26_Witness ==
  /\ perturbation.stage = "simulated"
  /\ perturbation.candidate = 2
  /\ perturbation.iterationCount = 5001
  /\ perturbation.trials = 2000
  /\ "P_WriteAccess" \in DOMAIN perturbation.perturbed
  /\ perturbation.perturbed["P_WriteAccess"]["mode"] = 22
  /\ perturbation.perturbed["P_IFSReachable"]["mode"] = 20

\* base + sign * sqrt(rad / UGrid) compared with an integer, on squares.
SurdAtMost(s, x) ==
  IF s.sign = 1
  THEN x - s.base >= 0 /\ s.rad <= (x - s.base) * (x - s.base) * UGrid
  ELSE s.base - x <= 0 \/ (s.base - x) * (s.base - x) * UGrid <= s.rad
SurdAtLeast(s, x) ==
  IF s.sign = 1
  THEN x - s.base <= 0 \/ (x - s.base) * (x - s.base) * UGrid <= s.rad
  ELSE s.base - x >= 0 /\ s.rad <= (s.base - x) * (s.base - x) * UGrid

C21_PartialInputsGiveZero ==
  /\ iteration.stage \in {"chain", "events", "returned"} =>
       \A k \in ChainKeys \ DOMAIN iteration.effective : iteration.samples[k] = 0
  /\ (iteration.stage \in {"events", "returned"} /\ iteration.events > 0) =>
       \A k \in EventKeys \ DOMAIN iteration.effective : iteration.samples[k] = 0
  /\ (iteration.stage \in {"events", "returned"}
        /\ ChainKeys \ DOMAIN iteration.effective # {}) =>
       /\ iteration.lambda = 0
       /\ iteration.eventCount = 0
       /\ iteration.draws = 0
       /\ iteration.events = 0
       /\ iteration.gross = 0
  /\ (iteration.stage = "returned" /\ ChainKeys \ DOMAIN iteration.effective # {}) =>
       iteration.net = 0

\* C21 witness: an iteration on inputs without P_IFSReachable has returned
\* gross 0 and net 0 without a draw of samplePoisson.
C21_Witness ==
  /\ iteration.stage = "returned"
  /\ "P_IFSReachable" \notin DOMAIN iteration.effective
  /\ "TEF" \in DOMAIN iteration.effective
  /\ iteration.samples["P_IFSReachable"] = 0
  /\ iteration.samples["TEF"] > 0
  /\ iteration.draws = 0
  /\ iteration.gross = 0 /\ iteration.net = 0

=============================================================================
